---------------------------- MODULE Spec2Model ----------------------------
(***************************************************************************)
(* Transfer Engine of the peer-to-peer file share (App component, the      *)
(* multi-file variant with batched disk flush and completion               *)
(* acknowledgment, src/unnamed/part_004 lines 563-1447).                   *)
(*                                                                         *)
(* Two endpoints: the sender S runs sendAllFiles / processFileQueue /      *)
(* startPumping, the receiver R runs the 'data' handler installed by       *)
(* setupReceiverEvents, prepareMotor and updateProgress.  Every handler    *)
(* is one action; an async handler is cut at each await, the part after    *)
(* the await being run when the awaited sink operation completes.          *)
(*                                                                         *)
(* The variant of src/App.tsx lines 515-1984 (handshake timeout, Cancel,   *)
(* one write per chunk, no acknowledgment) is modelled next to it, on the  *)
(* same variables, by the actions of the section "the variant with         *)
(* Cancel" and the specification SpecCancel.                               *)
(* The single-file variant of src/App.tsx lines 10-513 (the receiver       *)
(* collects chunks in chunksRef and flushes the list once diskBufferRef    *)
(* reaches its threshold) is modelled by the section "the variant with     *)
(* hybrid buffering" and the specification SpecHybrid.                     *)
(*                                                                         *)
(* Sizes are counted in abstract units.  The byte thresholds of the        *)
(* source (256 KB chunk, 8 MB / 64 MB watermarks, 15 MB flush threshold)   *)
(* are scaled down to small numbers that keep their order                  *)
(*   CHUNK_SIZE <= DRAIN_THRESHOLD < DISK_FLUSH_THRESHOLD                  *)
(*              < MAX_BUFFERED_AMOUNT                                      *)
(* so that a file of a few chunks crosses every one of them.               *)
(***************************************************************************)
EXTENDS Integers, Sequences, FiniteSets, TLC

\* ---------------------------------------------------------------- bounds
QueueLen == 3          \* files in the queue of the main specification
MaxFileSize == 5       \* size of the first file (the others have 1 unit)
MaxStarts == 2         \* SEND ALL FILES clicks in the specifications with a restart
MaxPumps == 2          \* chunk loops alive at the same time
MaxLoss == 1           \* messages the unreliable channel may lose
MaxSendFail == 1       \* conn.send calls that throw
MaxStreams == 1        \* writable streams the receiver may acquire
MaxWriteFail == 1      \* Disk Sink writes that fail
BigChunks == 201       \* chunks of the file of the progress specification
MaxInFlight == 2       \* undelivered messages in the progress specification
CancelFiles == 2        \* files in the queue of the specification with Cancel
StartFileSize == 2       \* size of the file of the specification of the start button
MaxQueued == 4          \* files the queue holds at most while the user edits it

\* ------------------------------------------------------------- constants
CHUNK_SIZE == 2              \* startPumping: CHUNK_SIZE (scaled)
DRAIN_THRESHOLD == 2         \* startPumping: DRAIN_THRESHOLD (scaled)
MAX_BUFFERED_AMOUNT == 4     \* startPumping: MAX_BUFFERED_AMOUNT (scaled)
DISK_FLUSH_THRESHOLD == 3    \* DISK_FLUSH_THRESHOLD (scaled)
SEND_BUFFER_LIMIT == 2
NaN == -1                    \* Math.round(0 / 0)

VARIABLES
  \* ---- sender (React state and closures of processFileQueue/startPumping)
  connRef,             \* the sender's connRef.current: 0 (null) or 1 (a DataConnection)
  filesQueue,          \* sizes of the queued files; file index i is filesQueue[i+1]
  launchedQueue,       \* the filesQueue of the render in which the run was started,
                       \* as the closures of that run hold it
  currentFileIndex,
  senderProgress,      \* transferProgress on the sending endpoint
  allSent,             \* processFileQueue reached index >= filesQueue.length
  listeners,           \* handleTransferStep closures registered on conn 'data'
  timers,              \* pending setTimeout(() => processFileQueue(index+1), 500)
  pumps,               \* live startPumping closures
  bufferedAmount,      \* conn.dataChannel.bufferedAmount
  startBudget,         \* SEND ALL FILES clicks the user still makes
  senderElapsed,       \* more than 500 ms have passed since the sender's lastUpdateRef
  \* ---- channel
  s2r,                 \* messages in flight S -> R, oldest first
  r2s,                 \* messages in flight R -> S, oldest first
  lossBudget,
  sendFailBudget,
  \* ---- receiver (refs and React state)
  receivedFileMetaRef,
  chunksRef,
  bytesReceivedRef,
  lastBytesRef,
  writeBufferRef,
  bufferSizeRef,
  diskBufferRef,       \* byte count awaiting a flush in the hybrid receiver (App.tsx:41)
  writableStreamRef,   \* 0 (null) or the id of a stream in sinks
  isMotorReady,
  isTransferComplete,
  isFileSaved,
  receiverProgress,    \* transferProgress on the receiving endpoint
  pickerOpen,          \* prepareMotor is suspended in showSaveFilePicker
  sinks,               \* the writable streams created so far
  streamBudget,        \* save pickers that still end in a writable stream
  writeFailBudget,     \* Disk Sink writes that still fail
  receiverElapsed,     \* more than 1000 ms have passed since the receiver's lastUpdateRef
  connectionStatus,    \* connectionStatus on the receiving endpoint
  \* ---- history (not read by any action's guard or result)
  metaSent,            \* files whose Meta has been put on the channel
  ackedFiles,          \* files whose TransferCompleteAck the sender has received
  openFile,            \* file whose Meta was sent last with no End sent since, or -1
  lastSaved            \* stream closed by the last completed 'end' handler, or 0

senderVars == <<connRef, filesQueue, launchedQueue, currentFileIndex, senderProgress,
                allSent, listeners, timers, pumps, bufferedAmount, startBudget, senderElapsed>>
chanVars == <<s2r, r2s, lossBudget, sendFailBudget>>
recvVars == <<receivedFileMetaRef, chunksRef, bytesReceivedRef, lastBytesRef,
              writeBufferRef, bufferSizeRef, diskBufferRef, writableStreamRef,
              isMotorReady, isTransferComplete, isFileSaved, receiverProgress, pickerOpen, sinks,
              streamBudget, writeFailBudget, receiverElapsed, connectionStatus>>
histVars == <<metaSent, ackedFiles, openFile, lastSaved>>
vars == <<senderVars, chanVars, recvVars, histVars>>

\* ---------------------------------------------------------------- helpers
Min(a, b) == IF a < b THEN a ELSE b

RECURSIVE SumLen(_)
\* total byteLength of a list of chunks (bufferSizeRef, Blob size)
SumLen(cs) == IF cs = <<>> THEN 0 ELSE Head(cs).len + SumLen(Tail(cs))

RECURSIVE ChunkBytes(_, _, _)
\* the bytes <<file, position>> of the slice [off, off+len) of a file
ChunkBytes(f, off, len) ==
  IF len = 0 THEN <<>> ELSE <<<<f, off>>>> \o ChunkBytes(f, off + 1, len - 1)

RECURSIVE Bytes(_)
\* new Blob(chunks): the concatenation of the chunks' bytes
Bytes(cs) ==
  IF cs = <<>> THEN <<>>
  ELSE ChunkBytes(Head(cs).file, Head(cs).off, Head(cs).len) \o Bytes(Tail(cs))

\* the content of the sender's Byte Source for file f of size n
FileBytes(f, n) == ChunkBytes(f, 0, n)

\* Math.min(100, Math.round((n / total) * 100))
Percent(n, total) ==
  IF total = 0 THEN (IF n = 0 THEN NaN ELSE 100)
  ELSE Min(100, (200 * n + total) \div (2 * total))

\* file.size of file f of the run, in the closures of startPumping
FileSizeOf(f) == launchedQueue[f + 1]

\* the Meta that processFileQueue / sendFile build from the queue of their
\* render (the one the start click of the same step captures)
MetaMsg(f) == [type |-> "meta", file |-> f, size |-> launchedQueue'[f + 1]]
ChunkMsg(f, o, l) == [type |-> "chunk", file |-> f, off |-> o, len |-> l]
EndMsg(f) == [type |-> "end", file |-> f]
\* receivedFileMetaRef.current === null
NoMeta == [file |-> -1, size |-> 0]

ReadyMsg == [type |-> "ready_to_receive"]
AckMsg(f) == [type |-> "transfer_complete_ack", file |-> f]


\* the connection has not emitted 'close': 'data' events are still delivered
ChannelOpen == connectionStatus # "Connection Closed"

\* ------------------------------------------------------------------ sender

\* a processFileQueue that sends the Meta and registers no listener
processFileQueueUnheard(index) ==
  IF index >= Len(launchedQueue')
  THEN /\ allSent' = TRUE
       /\ UNCHANGED <<currentFileIndex, s2r, senderProgress, listeners, metaSent, openFile>>
  ELSE /\ currentFileIndex' = index
       /\ s2r' = Append(s2r, MetaMsg(index))
       /\ senderProgress' = 1
       /\ metaSent' = metaSent \cup {index}
       /\ openFile' = index
       /\ UNCHANGED <<allSent, listeners>>

\* handleDrop, part_004:1141-1149: the dropped file is appended to the queue
handleDrop ==
  /\ Len(filesQueue) < MaxQueued
  /\ filesQueue' = Append(filesQueue, StartFileSize)
  /\ UNCHANGED <<connRef, launchedQueue, currentFileIndex, senderProgress, allSent,
                 listeners, timers, pumps, bufferedAmount, startBudget, senderElapsed>>
  /\ UNCHANGED chanVars
  /\ UNCHANGED recvVars
  /\ UNCHANGED histVars

\* clearFilesQueue behind Clear All, part_004:1152-1157
clearFilesQueue ==
  /\ filesQueue # <<>>
  /\ filesQueue' = <<>>
  /\ currentFileIndex' = 0
  /\ senderProgress' = 0
  /\ UNCHANGED <<connRef, launchedQueue, allSent, listeners, timers, pumps,
                 bufferedAmount, startBudget, senderElapsed>>
  /\ UNCHANGED chanVars
  /\ UNCHANGED recvVars
  /\ UNCHANGED histVars

\* removeFileFromQueue(index) behind the X of a queue row, part_004:1160-1167
removeFileFromQueue(index) ==
  /\ filesQueue' = SubSeq(filesQueue, 1, index)
                   \o SubSeq(filesQueue, index + 2, Len(filesQueue))
  /\ currentFileIndex' = IF currentFileIndex >= index /\ currentFileIndex > 0
                         THEN currentFileIndex - 1 ELSE currentFileIndex
  /\ UNCHANGED <<connRef, launchedQueue, senderProgress, allSent, listeners, timers,
                 pumps, bufferedAmount, startBudget, senderElapsed>>
  /\ UNCHANGED chanVars
  /\ UNCHANGED recvVars
  /\ UNCHANGED histVars

\* a processFileQueue that reads the queue of the latest render
processFileQueueLive(index) ==
  IF index >= Len(filesQueue)
  THEN /\ allSent' = TRUE
       /\ UNCHANGED <<currentFileIndex, s2r, senderProgress, listeners, metaSent, openFile>>
  ELSE /\ currentFileIndex' = index
       /\ s2r' = Append(s2r, [type |-> "meta", file |-> index, size |-> filesQueue[index + 1]])
       /\ senderProgress' = 1
       /\ listeners' = Append(listeners, index)
       /\ metaSent' = metaSent \cup {index}
       /\ openFile' = index
       /\ UNCHANGED allSent

\* processFileQueue(index), part_004:1016-1061.  A control message weighs less
\* than one unit and is not counted into bufferedAmount.
processFileQueue(index) ==
  IF index >= Len(launchedQueue')
  THEN /\ allSent' = TRUE
       /\ UNCHANGED <<currentFileIndex, s2r, senderProgress, listeners, metaSent, openFile>>
  ELSE /\ currentFileIndex' = index
       /\ s2r' = Append(s2r, MetaMsg(index))
       /\ senderProgress' = 1
       /\ listeners' = Append(listeners, index)
       /\ metaSent' = metaSent \cup {index}
       /\ openFile' = index
       /\ UNCHANGED allSent

\* peer.on('connection'): the receiver's connection arrives, part_004:679-683
onConnection ==
  /\ connRef = 0
  /\ connRef' = 1
  /\ UNCHANGED <<filesQueue, launchedQueue, currentFileIndex, senderProgress, allSent, listeners,
                 timers, pumps, bufferedAmount, startBudget, senderElapsed>>
  /\ UNCHANGED chanVars
  /\ UNCHANGED recvVars
  /\ UNCHANGED histVars

\* a sendAllFiles that does not look at connRef
sendAllFilesUnchecked ==
  /\ startBudget > 0
  /\ startBudget' = startBudget - 1
  /\ launchedQueue' = filesQueue
  /\ processFileQueue(0)
  /\ UNCHANGED <<filesQueue, timers, pumps, bufferedAmount, senderElapsed>>
  /\ UNCHANGED <<r2s, lossBudget, sendFailBudget>>
  /\ UNCHANGED recvVars
  /\ UNCHANGED <<ackedFiles, lastSaved>>
  /\ UNCHANGED connRef

\* sendAllFiles, part_004:1005-1013.  The SEND ALL FILES button stays enabled
\* while a transfer runs (part_004:1349-1351), so this may be taken at any time.
sendAllFiles ==
  /\ startBudget > 0
  /\ startBudget' = startBudget - 1
  /\ launchedQueue' = IF connRef = 0 \/ Len(filesQueue) = 0 THEN launchedQueue ELSE filesQueue
  /\ IF connRef = 0 \/ Len(filesQueue) = 0
     THEN UNCHANGED <<currentFileIndex, s2r, senderProgress, allSent, listeners,
                      metaSent, openFile>>
     ELSE processFileQueue(0)
  /\ UNCHANGED <<filesQueue, timers, pumps, bufferedAmount, senderElapsed>>
  /\ UNCHANGED <<r2s, lossBudget, sendFailBudget>>
  /\ UNCHANGED recvVars
  /\ UNCHANGED <<ackedFiles, lastSaved>>
  /\ UNCHANGED connRef

\* the 500 ms timer set by handleTransferStep fires, part_004:1054-1056
advanceTimer ==
  /\ timers # <<>>
  /\ timers' = Tail(timers)
  /\ UNCHANGED launchedQueue
  /\ processFileQueue(Head(timers))
  /\ UNCHANGED <<filesQueue, pumps, bufferedAmount, startBudget, senderElapsed>>
  /\ UNCHANGED <<r2s, lossBudget, sendFailBudget>>
  /\ UNCHANGED recvVars
  /\ UNCHANGED <<ackedFiles, lastSaved>>
  /\ UNCHANGED connRef

\* startPumping(conn, file) up to its first readNextChunk(), part_004:1064-1075,1132
\* reads: readAsArrayBuffer calls of the loop's FileReader whose onload has not
\* run; polls, retries: armed setTimeout(waitForDrain), setTimeout(readNextChunk);
\* sent: the number of chunks the loop has sent, read by no action
NewPump(index) ==
  [file |-> index, offset |-> 0, reads |-> 1, polls |-> 0, retries |-> 0, sent |-> 0]

\* a message of the receiver reaches the sender: every registered
\* handleTransferStep runs on it, in registration order, part_004:1042-1058
senderOnData ==
  /\ ChannelOpen
  /\ r2s # <<>>
  /\ r2s' = Tail(r2s)
  /\ LET data == Head(r2s) IN
       IF data.type = "ready_to_receive"
       THEN /\ Len(pumps) + Len(listeners) <= MaxPumps
            /\ pumps' = pumps \o [i \in 1..Len(listeners) |-> NewPump(listeners[i])]
            /\ senderElapsed' = IF listeners = <<>> THEN senderElapsed ELSE FALSE
            /\ UNCHANGED <<listeners, timers, ackedFiles>>
       ELSE /\ listeners' = <<>>
            /\ timers' = timers \o [i \in 1..Len(listeners) |-> listeners[i] + 1]
            /\ ackedFiles' = ackedFiles \cup {data.file}
            /\ UNCHANGED <<pumps, senderElapsed>>
  /\ UNCHANGED <<filesQueue, currentFileIndex, senderProgress, allSent, bufferedAmount, startBudget>>
  /\ UNCHANGED <<s2r, lossBudget, sendFailBudget>>
  /\ UNCHANGED recvVars
  /\ UNCHANGED <<metaSent, openFile, lastSaved>>
  /\ UNCHANGED <<connRef, launchedQueue>>

RemoveAt(seq, p) == [i \in 1..(Len(seq) - 1) |-> IF i < p THEN seq[i] ELSE seq[i + 1]]

\* what the chunk loop does after a successful send when data remains,
\* part_004:1107-1113 with waitForDrain (1076-1082) called at once
\* (1: readNextChunk is called; 0: setTimeout(waitForDrain) is armed)
NextReads(buffered) ==
  IF buffered < MAX_BUFFERED_AMOUNT THEN 1
  ELSE IF buffered < DRAIN_THRESHOLD THEN 1 ELSE 0

\* the slice read by readNextChunk of pump pm, part_004:1127-1130
SliceLen(pm) ==
  IF pm.offset < FileSizeOf(pm.file)
  THEN Min(CHUNK_SIZE, FileSizeOf(pm.file) - pm.offset) ELSE 0

\* "if (now - lastUpdateRef.current > 500) setTransferProgress(progress)",
\* part_004:1092-1105
pumpProgress(offset, size) ==
  IF senderElapsed
  THEN senderProgress' = Percent(offset, size) /\ senderElapsed' = FALSE
  ELSE UNCHANGED <<senderProgress, senderElapsed>>

\* fileReader.onload of pump p with a conn.send(buffer) that succeeds,
\* part_004:1084-1120
pumpOnload(p) ==
  /\ pumps[p].reads > 0
  /\ LET pm == pumps[p]
         size == FileSizeOf(pm.file)
         len == SliceLen(pm)
         offset == pm.offset + len
         buffered == bufferedAmount + len
         chunk == ChunkMsg(pm.file, pm.offset, len)
     IN /\ bufferedAmount' = buffered
        /\ IF offset < size
           THEN /\ s2r' = Append(s2r, chunk)
                /\ pumpProgress(offset, size)
                /\ pumps' = [pumps EXCEPT ![p].offset = offset,
                                          ![p].reads = @ - 1 + NextReads(buffered),
                                          ![p].polls = @ + 1 - NextReads(buffered),
                                          ![p].sent = @ + 1]
                /\ UNCHANGED openFile
           ELSE /\ s2r' = Append(Append(s2r, chunk), EndMsg(pm.file))
                /\ senderProgress' = 100
                /\ senderElapsed' = FALSE
                /\ pumps' = RemoveAt(pumps, p)
                /\ openFile' = -1
  /\ UNCHANGED <<filesQueue, currentFileIndex, allSent, listeners, timers, startBudget>>
  /\ UNCHANGED <<r2s, lossBudget, sendFailBudget>>
  /\ UNCHANGED recvVars
  /\ UNCHANGED <<metaSent, ackedFiles, lastSaved>>
  /\ UNCHANGED <<connRef, launchedQueue>>

\* a catch that arms the retry timer and also reads on at once
pumpSendThrowsReadsOn(p) ==
  /\ pumps[p].reads > 0
  /\ sendFailBudget > 0
  /\ sendFailBudget' = sendFailBudget - 1
  /\ pumps' = [pumps EXCEPT ![p].retries = @ + 1]
  /\ UNCHANGED <<filesQueue, currentFileIndex, senderProgress, allSent, listeners,
                 timers, bufferedAmount, startBudget, senderElapsed>>
  /\ UNCHANGED <<s2r, r2s, lossBudget>>
  /\ UNCHANGED recvVars
  /\ UNCHANGED histVars
  /\ UNCHANGED <<connRef, launchedQueue>>

\* fileReader.onload of pump p with a conn.send(buffer) that throws: the catch
\* arms the 50 ms retry timer, part_004:1121-1124
pumpSendThrows(p) ==
  /\ pumps[p].reads > 0
  /\ sendFailBudget > 0
  /\ sendFailBudget' = sendFailBudget - 1
  /\ pumps' = [pumps EXCEPT ![p].reads = @ - 1, ![p].retries = @ + 1]
  /\ UNCHANGED <<filesQueue, currentFileIndex, senderProgress, allSent, listeners,
                 timers, bufferedAmount, startBudget, senderElapsed>>
  /\ UNCHANGED <<s2r, r2s, lossBudget>>
  /\ UNCHANGED recvVars
  /\ UNCHANGED histVars
  /\ UNCHANGED <<connRef, launchedQueue>>

\* fileReader.onload of pump p on a channel that rejects the send, as often
\* as it is tried: the catch arms the 50 ms retry timer, part_004:1121-1124
pumpSendRejected(p) ==
  /\ pumps[p].reads > 0
  /\ pumps' = [pumps EXCEPT ![p].reads = @ - 1, ![p].retries = @ + 1]
  /\ UNCHANGED <<filesQueue, currentFileIndex, senderProgress, allSent, listeners,
                 timers, bufferedAmount, startBudget, senderElapsed>>
  /\ UNCHANGED chanVars
  /\ UNCHANGED recvVars
  /\ UNCHANGED histVars
  /\ UNCHANGED <<connRef, launchedQueue>>

\* fileReader.onload of pump p on the last slice, with a conn.send(buffer)
\* that succeeds and a conn.send({ type: 'end' }) that throws: the same
\* catch arms the retry timer with offset already at the file's end,
\* part_004:1088-1124
pumpEndThrows(p) ==
  /\ pumps[p].reads > 0
  /\ sendFailBudget > 0
  /\ LET pm == pumps[p]
         size == FileSizeOf(pm.file)
         len == SliceLen(pm)
         offset == pm.offset + len
     IN /\ offset >= size
        /\ sendFailBudget' = sendFailBudget - 1
        /\ bufferedAmount' = bufferedAmount + len
        /\ s2r' = Append(s2r, ChunkMsg(pm.file, pm.offset, len))
        /\ pumpProgress(offset, size)
        /\ pumps' = [pumps EXCEPT ![p].offset = offset,
                                  ![p].reads = @ - 1,
                                  ![p].retries = @ + 1,
                                  ![p].sent = @ + 1]
  /\ UNCHANGED <<filesQueue, currentFileIndex, allSent, listeners, timers, startBudget>>
  /\ UNCHANGED <<r2s, lossBudget>>
  /\ UNCHANGED recvVars
  /\ UNCHANGED histVars
  /\ UNCHANGED <<connRef, launchedQueue>>

\* a poll that resumes as soon as the buffer is below the high watermark
waitForDrainAtHigh(p) ==
  /\ pumps[p].polls > 0
  /\ bufferedAmount < MAX_BUFFERED_AMOUNT
  /\ pumps' = [pumps EXCEPT ![p].polls = @ - 1, ![p].reads = @ + 1]
  /\ UNCHANGED <<filesQueue, currentFileIndex, senderProgress, allSent, listeners,
                 timers, bufferedAmount, startBudget, senderElapsed>>
  /\ UNCHANGED chanVars
  /\ UNCHANGED recvVars
  /\ UNCHANGED histVars
  /\ UNCHANGED <<connRef, launchedQueue>>

\* a poll of waitForDrain finds the buffer drained, part_004:1076-1082
\* (a poll that finds it still full re-arms the timer and changes nothing)
waitForDrain(p) ==
  /\ pumps[p].polls > 0
  /\ bufferedAmount < DRAIN_THRESHOLD
  /\ pumps' = [pumps EXCEPT ![p].polls = @ - 1, ![p].reads = @ + 1]
  /\ UNCHANGED <<filesQueue, currentFileIndex, senderProgress, allSent, listeners,
                 timers, bufferedAmount, startBudget, senderElapsed>>
  /\ UNCHANGED chanVars
  /\ UNCHANGED recvVars
  /\ UNCHANGED histVars
  /\ UNCHANGED <<connRef, launchedQueue>>

\* the retry timer set in the catch fires: readNextChunk, part_004:1121-1124
retryRead(p) ==
  /\ pumps[p].retries > 0
  /\ pumps' = [pumps EXCEPT ![p].retries = @ - 1, ![p].reads = @ + 1]
  /\ UNCHANGED <<filesQueue, currentFileIndex, senderProgress, allSent, listeners,
                 timers, bufferedAmount, startBudget, senderElapsed>>
  /\ UNCHANGED chanVars
  /\ UNCHANGED recvVars
  /\ UNCHANGED histVars
  /\ UNCHANGED <<connRef, launchedQueue>>

\* the data channel hands buffered bytes to the network
channelDrain ==
  /\ bufferedAmount > 0
  /\ bufferedAmount' = bufferedAmount - 1
  /\ UNCHANGED <<filesQueue, currentFileIndex, senderProgress, allSent, listeners,
                 timers, pumps, startBudget, senderElapsed>>
  /\ UNCHANGED chanVars
  /\ UNCHANGED recvVars
  /\ UNCHANGED histVars
  /\ UNCHANGED <<connRef, launchedQueue>>


\* ---------------------------------------------------------------- Disk Sink
\* A FileSystemWritableFileStream: write() and close() are queued on the
\* stream and complete one at a time in call order; after close() has been
\* called, or a write has failed, every further write() or close() is rejected.

NewStream ==
  [written |-> <<>>, ops |-> <<>>, closing |-> FALSE, closed |-> FALSE, errored |-> FALSE]

Rejects(sk, s) == sk[s].closing \/ sk[s].errored

\* writableStreamRef.current.write(new Blob(data)), awaited by handler `cont`
Write(sk, s, data, cont, f) ==
  [sk EXCEPT ![s].ops = Append(@, [kind |-> "write", data |-> data,
                                    cont |-> cont, file |-> f])]

\* writableStreamRef.current.close(), awaited by handler `cont`
Close(sk, s, cont, f) ==
  [sk EXCEPT ![s].closing = TRUE,
             ![s].ops = Append(@, [kind |-> "close", data |-> <<>>,
                                    cont |-> cont, file |-> f])]

\* the head operation of stream s takes effect
Completed(sk, s) ==
  LET op == Head(sk[s].ops) IN
    [sk EXCEPT ![s].ops = Tail(@),
               ![s].written = IF op.kind = "write" THEN @ \o op.data ELSE @,
               ![s].closed = IF op.kind = "close" THEN TRUE ELSE @]

\* ---------------------------------------------------------------- receiver

\* updateProgress(), part_004:904-932
updateProgress(bytes) ==
  IF receivedFileMetaRef = NoMeta \/ ~receiverElapsed
  THEN UNCHANGED <<receiverProgress, lastBytesRef, receiverElapsed>>
  ELSE /\ receiverProgress' = Percent(bytes, receivedFileMetaRef.size)
       /\ lastBytesRef' = bytes
       /\ receiverElapsed' = FALSE

\* "if (now - lastUpdateRef.current > 1000) updateProgress()", part_004:776-779
throttledProgress(bytes) ==
  IF receiverElapsed
  THEN updateProgress(bytes)
  ELSE UNCHANGED <<receiverProgress, lastBytesRef, receiverElapsed>>

\* an 'end' branch that reports completion without the acknowledgment
finishEndNoAck(f) ==
  /\ receiverProgress' = 100
  /\ isTransferComplete' = TRUE
  /\ UNCHANGED r2s
  /\ UNCHANGED receiverElapsed

\* the tail of the 'end' branch, part_004:836-847
finishEnd(f) ==
  /\ receiverProgress' = 100
  /\ isTransferComplete' = TRUE
  /\ r2s' = Append(r2s, AckMsg(f))
  /\ UNCHANGED receiverElapsed

\* conn.on('data') with a binary chunk, part_004:751-780
recvChunk(data) ==
  /\ bytesReceivedRef' = bytesReceivedRef + data.len
  /\ IF writableStreamRef # 0
     THEN /\ UNCHANGED chunksRef
          /\ IF bufferSizeRef + data.len >= DISK_FLUSH_THRESHOLD
             THEN /\ writeBufferRef' = <<>>
                  /\ bufferSizeRef' = 0
                  /\ sinks' = IF Rejects(sinks, writableStreamRef) THEN sinks
                              ELSE Write(sinks, writableStreamRef,
                                         Append(writeBufferRef, data), "chunk", data.file)
                  /\ UNCHANGED <<receiverProgress, lastBytesRef, receiverElapsed>>
             ELSE /\ writeBufferRef' = Append(writeBufferRef, data)
                  /\ bufferSizeRef' = bufferSizeRef + data.len
                  /\ throttledProgress(bytesReceivedRef')
                  /\ UNCHANGED sinks
     ELSE /\ chunksRef' = Append(chunksRef, data)
          /\ throttledProgress(bytesReceivedRef')
          /\ UNCHANGED <<writeBufferRef, bufferSizeRef, sinks>>
  /\ UNCHANGED <<receivedFileMetaRef, writableStreamRef, isMotorReady,
                 isTransferComplete, isFileSaved, pickerOpen, streamBudget,
                 writeFailBudget>>
  /\ UNCHANGED <<r2s, lastSaved>>

\* conn.on('data') with {type: 'meta'}, part_004:781-818
recvMeta(data) ==
  /\ receivedFileMetaRef' = [file |-> data.file, size |-> data.size]
  /\ chunksRef' = <<>>
  /\ bytesReceivedRef' = 0
  /\ lastBytesRef' = 0
  /\ writeBufferRef' = <<>>
  /\ bufferSizeRef' = 0
  /\ isTransferComplete' = FALSE
  /\ isMotorReady' = FALSE
  /\ isFileSaved' = FALSE
  /\ receiverProgress' = 0
  /\ receiverElapsed' = FALSE
  /\ sinks' = IF writableStreamRef # 0 /\ ~Rejects(sinks, writableStreamRef)
              THEN Close(sinks, writableStreamRef, "meta", data.file)
              ELSE sinks
  /\ UNCHANGED <<writableStreamRef, pickerOpen, streamBudget, writeFailBudget>>
  /\ UNCHANGED <<r2s, lastSaved>>

\* the 'end' branch from "if (writableStreamRef.current) close", part_004:831-847
endClose(sk, f) ==
  IF writableStreamRef # 0
  THEN /\ sinks' = IF Rejects(sk, writableStreamRef) THEN sk
                   ELSE Close(sk, writableStreamRef, "endC", f)
       /\ UNCHANGED <<receiverProgress, isTransferComplete, r2s, receiverElapsed>>
  ELSE /\ sinks' = sk
       /\ finishEnd(f)

\* conn.on('data') with {type: 'end'}, part_004:819-848
recvEnd(data) ==
  /\ IF writableStreamRef # 0 /\ writeBufferRef # <<>>
     THEN /\ writeBufferRef' = <<>>
          /\ bufferSizeRef' = 0
          /\ sinks' = IF Rejects(sinks, writableStreamRef) THEN sinks
                      ELSE Write(sinks, writableStreamRef, writeBufferRef, "endW", data.file)
          /\ UNCHANGED <<receiverProgress, isTransferComplete, r2s, receiverElapsed>>
     ELSE /\ UNCHANGED <<writeBufferRef, bufferSizeRef>>
          /\ endClose(sinks, data.file)
  /\ UNCHANGED <<receivedFileMetaRef, chunksRef, bytesReceivedRef, lastBytesRef,
                 writableStreamRef, isMotorReady, isFileSaved, pickerOpen, streamBudget,
                 writeFailBudget>>
  /\ UNCHANGED lastSaved

\* the next message of the sender reaches the receiver's 'data' handler
receiverOnData ==
  /\ ChannelOpen
  /\ s2r # <<>>
  /\ s2r' = Tail(s2r)
  /\ LET data == Head(s2r) IN
       CASE data.type = "chunk" -> recvChunk(data)
         [] data.type = "meta" -> recvMeta(data)
         [] data.type = "end" -> recvEnd(data)
  /\ UNCHANGED senderVars
  /\ UNCHANGED <<lossBudget, sendFailBudget>>
  /\ UNCHANGED <<metaSent, ackedFiles, openFile>>
  /\ UNCHANGED <<diskBufferRef, connectionStatus>>

\* a write() or close() of stream s completes and the handler awaiting it resumes
sinkComplete(s) ==
  /\ sinks[s].ops # <<>>
  /\ LET op == Head(sinks[s].ops)
         sk == Completed(sinks, s)
     IN CASE op.cont = "chunk" ->       \* part_004:775-779
               /\ sinks' = sk
               /\ throttledProgress(bytesReceivedRef)
               /\ UNCHANGED <<writableStreamRef, isFileSaved, isTransferComplete, r2s, lastSaved>>
          [] op.cont = "meta" ->        \* part_004:816
               /\ sinks' = sk
               /\ writableStreamRef' = 0
               /\ UNCHANGED <<receiverProgress, lastBytesRef, isFileSaved,
                              isTransferComplete, r2s, receiverElapsed, lastSaved>>
          [] op.cont = "endW" ->        \* part_004:831-847
               /\ endClose(sk, op.file)
               /\ UNCHANGED <<writableStreamRef, lastBytesRef, isFileSaved, lastSaved>>
          [] op.cont = "endC" ->        \* part_004:833-847
               /\ sinks' = sk
               /\ writableStreamRef' = 0
               /\ isFileSaved' = TRUE
               /\ lastSaved' = s
               /\ finishEnd(op.file)
               /\ UNCHANGED lastBytesRef
  /\ UNCHANGED <<receivedFileMetaRef, chunksRef, bytesReceivedRef, writeBufferRef,
                 bufferSizeRef, isMotorReady, pickerOpen, streamBudget, writeFailBudget>>
  /\ UNCHANGED senderVars
  /\ UNCHANGED <<s2r, lossBudget, sendFailBudget>>
  /\ UNCHANGED <<metaSent, ackedFiles, openFile>>
  /\ UNCHANGED <<diskBufferRef, connectionStatus>>

\* prepareMotor on a browser without showSaveFilePicker, or whose picker is
\* cancelled or fails: fallback, part_004:887-900
confirmFallback ==
  /\ isMotorReady' = TRUE
  /\ r2s' = Append(r2s, ReadyMsg)
  /\ UNCHANGED <<writableStreamRef, sinks>>

\* a prepareMotor without the check of receivedFileMetaRef
prepareMotorUnchecked ==
  /\ ~isMotorReady
  /\ ~isTransferComplete
  /\ ~pickerOpen
  /\ \/ /\ pickerOpen' = TRUE
        /\ UNCHANGED <<isMotorReady, r2s, writableStreamRef, sinks>>
     \/ /\ confirmFallback
        /\ UNCHANGED pickerOpen
  /\ UNCHANGED <<streamBudget, writeFailBudget>>
  /\ UNCHANGED <<receivedFileMetaRef, chunksRef, bytesReceivedRef, lastBytesRef,
                 writeBufferRef, bufferSizeRef, isTransferComplete, isFileSaved,
                 receiverProgress, receiverElapsed>>
  /\ UNCHANGED senderVars
  /\ UNCHANGED <<s2r, lossBudget, sendFailBudget>>
  /\ UNCHANGED histVars
  /\ UNCHANGED <<diskBufferRef, connectionStatus>>

\* the "Enable High-Speed Save" button (part_004:1384-1388) runs prepareMotor,
\* part_004:866-901, up to the await of showSaveFilePicker
prepareMotor ==
  /\ receivedFileMetaRef # NoMeta
  /\ ~isMotorReady
  /\ ~isTransferComplete
  /\ ~pickerOpen
  /\ \/ /\ pickerOpen' = TRUE
        /\ UNCHANGED <<isMotorReady, r2s, writableStreamRef, sinks>>
     \/ /\ confirmFallback
        /\ UNCHANGED pickerOpen
  /\ UNCHANGED <<streamBudget, writeFailBudget>>
  /\ UNCHANGED <<receivedFileMetaRef, chunksRef, bytesReceivedRef, lastBytesRef,
                 writeBufferRef, bufferSizeRef, isTransferComplete, isFileSaved,
                 receiverProgress, receiverElapsed>>
  /\ UNCHANGED senderVars
  /\ UNCHANGED <<s2r, lossBudget, sendFailBudget>>
  /\ UNCHANGED histVars
  /\ UNCHANGED <<diskBufferRef, connectionStatus>>

\* showSaveFilePicker and createWritable settle, part_004:873-894
pickerSettles ==
  /\ pickerOpen
  /\ pickerOpen' = FALSE
  /\ \/ /\ streamBudget > 0
        /\ streamBudget' = streamBudget - 1
        /\ sinks' = Append(sinks, NewStream)
        /\ writableStreamRef' = Len(sinks) + 1
        /\ isMotorReady' = TRUE
        /\ r2s' = Append(r2s, ReadyMsg)
     \/ confirmFallback /\ UNCHANGED streamBudget
  /\ UNCHANGED <<receivedFileMetaRef, chunksRef, bytesReceivedRef, lastBytesRef,
                 writeBufferRef, bufferSizeRef, isTransferComplete, isFileSaved,
                 receiverProgress, receiverElapsed, writeFailBudget>>
  /\ UNCHANGED senderVars
  /\ UNCHANGED <<s2r, lossBudget, sendFailBudget>>
  /\ UNCHANGED histVars
  /\ UNCHANGED <<diskBufferRef, connectionStatus>>

\* a write() of stream s fails (disk full, permission revoked): the stream is
\* errored, and the handler awaiting the write, like every handler awaiting an
\* operation queued behind it, ends with the rejection: neither the binary
\* branch (part_004:767) nor the 'end' branch (part_004:828) has a catch
sinkFails(s) ==
  /\ writeFailBudget > 0
  /\ sinks[s].ops # <<>>
  /\ Head(sinks[s].ops).kind = "write"
  /\ writeFailBudget' = writeFailBudget - 1
  /\ sinks' = [sinks EXCEPT ![s].errored = TRUE, ![s].ops = <<>>]
  /\ UNCHANGED <<receivedFileMetaRef, chunksRef, bytesReceivedRef, lastBytesRef,
                 writeBufferRef, bufferSizeRef, writableStreamRef, isMotorReady,
                 isTransferComplete, isFileSaved, receiverProgress, pickerOpen,
                 streamBudget, receiverElapsed>>
  /\ UNCHANGED senderVars
  /\ UNCHANGED chanVars
  /\ UNCHANGED histVars
  /\ UNCHANGED <<diskBufferRef, connectionStatus>>

\* conn.on('close') of the receiver, part_004:858-862
onClose ==
  /\ ChannelOpen
  /\ connectionStatus' = "Connection Closed"
  /\ receiverProgress' = 0
  /\ UNCHANGED <<receivedFileMetaRef, chunksRef, bytesReceivedRef, lastBytesRef,
                 writeBufferRef, bufferSizeRef, diskBufferRef, writableStreamRef,
                 isMotorReady, isTransferComplete, isFileSaved, pickerOpen, sinks,
                 streamBudget, writeFailBudget, receiverElapsed>>
  /\ UNCHANGED senderVars
  /\ UNCHANGED chanVars
  /\ UNCHANGED histVars

\* handleSaveFile behind the Save File button, part_004:935-979, 1390-1396:
\* the button is shown for a completed transfer without a stream that is not
\* saved; the handler returns early without metadata, without data, or when
\* the file was saved by the stream, and otherwise downloads chunksRef
handleSaveFile ==
  /\ isTransferComplete /\ writableStreamRef = 0 /\ ~isFileSaved
  /\ IF receivedFileMetaRef = NoMeta \/ chunksRef = <<>>
     THEN UNCHANGED isFileSaved
     ELSE isFileSaved' = TRUE
  /\ UNCHANGED <<receivedFileMetaRef, chunksRef, bytesReceivedRef, lastBytesRef,
                 writeBufferRef, bufferSizeRef, diskBufferRef, writableStreamRef,
                 isMotorReady, isTransferComplete, receiverProgress, pickerOpen, sinks,
                 streamBudget, writeFailBudget, receiverElapsed>>
  /\ UNCHANGED senderVars
  /\ UNCHANGED chanVars
  /\ UNCHANGED histVars
  /\ UNCHANGED connectionStatus

\* ----------------------------------------------------------------- channel
\* reliable: false (part_004:996-999): the message at the head of either
\* direction may be lost instead of delivered
loseToReceiver ==
  /\ lossBudget > 0
  /\ s2r # <<>>
  /\ s2r' = Tail(s2r)
  /\ lossBudget' = lossBudget - 1
  /\ UNCHANGED senderVars
  /\ UNCHANGED <<r2s, sendFailBudget>>
  /\ UNCHANGED recvVars
  /\ UNCHANGED histVars

loseToSender ==
  /\ lossBudget > 0
  /\ r2s # <<>>
  /\ r2s' = Tail(r2s)
  /\ lossBudget' = lossBudget - 1
  /\ UNCHANGED senderVars
  /\ UNCHANGED <<s2r, sendFailBudget>>
  /\ UNCHANGED recvVars
  /\ UNCHANGED histVars

\* ------------------------------------------------------------------- time
\* Date.now() moves on by more than the sender's 500 ms update interval
senderTimePasses ==
  /\ ~senderElapsed
  /\ pumps # <<>>
  /\ senderElapsed' = TRUE
  /\ UNCHANGED <<filesQueue, currentFileIndex, senderProgress, allSent, listeners,
                 timers, pumps, bufferedAmount, startBudget>>
  /\ UNCHANGED chanVars
  /\ UNCHANGED recvVars
  /\ UNCHANGED histVars
  /\ UNCHANGED <<connRef, launchedQueue>>

\* Date.now() moves on by more than the receiver's 1000 ms update interval
receiverTimePasses ==
  /\ ~receiverElapsed
  /\ receivedFileMetaRef # NoMeta
  /\ receiverElapsed' = TRUE
  /\ UNCHANGED <<receivedFileMetaRef, chunksRef, bytesReceivedRef, lastBytesRef,
                 writeBufferRef, bufferSizeRef, writableStreamRef, isMotorReady,
                 isTransferComplete, isFileSaved, receiverProgress, pickerOpen, sinks,
                 streamBudget, writeFailBudget>>
  /\ UNCHANGED senderVars
  /\ UNCHANGED chanVars
  /\ UNCHANGED histVars
  /\ UNCHANGED <<diskBufferRef, connectionStatus>>

\* ------------------------------------------------- the variant with Cancel
\* The App component of src/App.tsx:515-1984: the sender waits for
\* ReadyToReceive with a 30 s timeout, moves to the next file 500 ms after
\* its End without waiting for an ack, and has a Cancel button; the receiver
\* writes every chunk to the stream by itself and knows 'transfer_cancelled'.

CancelMsg == [type |-> "transfer_cancelled"]

RECURSIVE SumSizes(_, _)
\* filesQueue.slice(0, n).reduce((sum, qf) => sum + qf.file.size, 0)
SumSizes(q, n) == IF n = 0 THEN 0 ELSE q[n] + SumSizes(q, n - 1)

\* overallPercent of the onProgress callback, App.tsx:1060-1065
OverallPercent(index, progress) ==
  LET total == SumSizes(launchedQueue, Len(launchedQueue))
      done == 100 * SumSizes(launchedQueue, index) + launchedQueue[index + 1] * progress
  IN (2 * done + total) \div (2 * total)

\* processFileQueue(index), App.tsx:995-1051: Meta, then waitForReady
\* registers onReady and arms the 30 s timeout
appProcessFileQueue(index) ==
  IF index >= Len(launchedQueue')
  THEN /\ allSent' = TRUE
       /\ UNCHANGED <<currentFileIndex, s2r, listeners, metaSent, openFile>>
  ELSE /\ currentFileIndex' = index
       /\ s2r' = Append(s2r, [type |-> "meta", file |-> index,
                              size |-> launchedQueue'[index + 1]])
       /\ listeners' = Append(listeners, index)
       /\ metaSent' = metaSent \cup {index}
       /\ openFile' = index
       /\ UNCHANGED allSent

\* sendAllFiles, App.tsx:965-991; LAUNCH TRANSFER is disabled while
\* overallProgress > 0, App.tsx:1675-1677
appSendAllFiles ==
  /\ startBudget > 0
  /\ senderProgress = 0
  /\ startBudget' = startBudget - 1
  /\ launchedQueue' = IF connRef = 0 \/ Len(filesQueue) = 0 THEN launchedQueue ELSE filesQueue
  /\ IF connRef = 0 \/ Len(filesQueue) = 0
     THEN UNCHANGED <<currentFileIndex, s2r, allSent, listeners, metaSent, openFile>>
     ELSE appProcessFileQueue(0)
  /\ UNCHANGED <<filesQueue, senderProgress, timers, pumps, bufferedAmount, senderElapsed>>
  /\ UNCHANGED <<r2s, lossBudget, sendFailBudget>>
  /\ UNCHANGED recvVars
  /\ UNCHANGED <<ackedFiles, lastSaved>>
  /\ UNCHANGED connRef

\* an onReady that is not unregistered by the timeout: a ReadyToReceive starts
\* the loop of the file announced last even when no waitForReady is pending
onReadyUnlistened ==
  /\ r2s # <<>>
  /\ r2s' = Tail(r2s)
  /\ IF Head(r2s).type = "ready_to_receive"
     THEN /\ Len(pumps) + Len(listeners) <= MaxPumps
          /\ pumps' = IF listeners = <<>> /\ openFile # -1
                      THEN Append(pumps, NewPump(openFile))
                      ELSE pumps \o [i \in 1..Len(listeners) |-> NewPump(listeners[i])]
          /\ listeners' = <<>>
          /\ senderElapsed' = IF listeners = <<>> THEN senderElapsed ELSE FALSE
     ELSE UNCHANGED <<pumps, listeners, senderElapsed>>
  /\ UNCHANGED <<filesQueue, currentFileIndex, senderProgress, allSent, timers,
                 bufferedAmount, startBudget>>
  /\ UNCHANGED <<s2r, lossBudget, sendFailBudget>>
  /\ UNCHANGED recvVars
  /\ UNCHANGED histVars
  /\ UNCHANGED <<connRef, launchedQueue>>

\* a message of the receiver reaches the sender: onReady of every waitForReady
\* clears its timeout, unregisters and resolves, and processFileQueue goes on
\* to startPumping up to its first readNextChunk, which returns without a
\* read when offset >= file.size, App.tsx:1040-1054, 1093-1219
onReady ==
  /\ r2s # <<>>
  /\ r2s' = Tail(r2s)
  /\ IF Head(r2s).type = "ready_to_receive"
     THEN /\ Len(pumps) + Len(listeners) <= MaxPumps
          /\ pumps' = pumps \o [i \in 1..Len(listeners) |->
                                  [NewPump(listeners[i]) EXCEPT
                                     !.reads = IF launchedQueue[listeners[i] + 1] = 0
                                               THEN 0 ELSE 1]]
          /\ listeners' = <<>>
          /\ senderElapsed' = IF listeners = <<>> THEN senderElapsed ELSE FALSE
     ELSE UNCHANGED <<pumps, listeners, senderElapsed>>
  /\ UNCHANGED <<filesQueue, currentFileIndex, senderProgress, allSent, timers,
                 bufferedAmount, startBudget>>
  /\ UNCHANGED <<s2r, lossBudget, sendFailBudget>>
  /\ UNCHANGED recvVars
  /\ UNCHANGED histVars
  /\ UNCHANGED <<connRef, launchedQueue>>

\* the 30 s timeout of waitForReady fires: the listener is removed and the
\* file is marked failed, App.tsx:1035-1038, 1083-1089
waitForReadyTimeout ==
  /\ listeners # <<>>
  /\ listeners' = Tail(listeners)
  /\ UNCHANGED <<filesQueue, currentFileIndex, senderProgress, allSent, timers,
                 pumps, bufferedAmount, startBudget, senderElapsed>>
  /\ UNCHANGED chanVars
  /\ UNCHANGED recvVars
  /\ UNCHANGED histVars
  /\ UNCHANGED <<connRef, launchedQueue>>

\* fileReader.onload of pump p, App.tsx:1138-1207.  isCancelled is set only by
\* the function the Promise executor returns (App.tsx:1221-1224), which nothing
\* calls, so it is false in every check.
appPumpOnload(p) ==
  /\ pumps[p].reads > 0
  /\ LET pm == pumps[p]
         size == launchedQueue[pm.file + 1]
         len == Min(CHUNK_SIZE, size - pm.offset)
         offset == pm.offset + len
         buffered == bufferedAmount + len
         chunk == ChunkMsg(pm.file, pm.offset, len)
     IN /\ bufferedAmount' = buffered
        /\ IF offset < size
           THEN /\ s2r' = Append(s2r, chunk)
                /\ IF senderElapsed
                   THEN /\ senderProgress' = OverallPercent(pm.file, Percent(offset, size))
                        /\ senderElapsed' = FALSE
                   ELSE UNCHANGED <<senderProgress, senderElapsed>>
                /\ pumps' = [pumps EXCEPT ![p].offset = offset,
                                          ![p].reads = @ - 1 + NextReads(buffered),
                                          ![p].polls = @ + 1 - NextReads(buffered),
                                          ![p].sent = @ + 1]
                /\ UNCHANGED <<timers, openFile>>
           ELSE /\ s2r' = Append(Append(s2r, chunk), EndMsg(pm.file))
                /\ senderProgress' = OverallPercent(pm.file, 100)
                /\ senderElapsed' = FALSE
                /\ pumps' = RemoveAt(pumps, p)
                /\ timers' = Append(timers, pm.file + 1)
                /\ openFile' = -1
  /\ UNCHANGED <<filesQueue, currentFileIndex, allSent, listeners, startBudget>>
  /\ UNCHANGED <<r2s, lossBudget, sendFailBudget>>
  /\ UNCHANGED recvVars
  /\ UNCHANGED <<metaSent, ackedFiles, lastSaved>>
  /\ UNCHANGED <<connRef, launchedQueue>>

\* fileReader.onload of pump p with a conn.send(buffer) that throws: the catch
\* arms the 100 ms retry timer, App.tsx:1148-1151, 1191-1200
appPumpSendThrows(p) ==
  /\ pumps[p].reads > 0
  /\ sendFailBudget > 0
  /\ sendFailBudget' = sendFailBudget - 1
  /\ pumps' = [pumps EXCEPT ![p].reads = @ - 1, ![p].retries = @ + 1]
  /\ UNCHANGED <<filesQueue, currentFileIndex, senderProgress, allSent, listeners,
                 timers, bufferedAmount, startBudget, senderElapsed>>
  /\ UNCHANGED <<s2r, r2s, lossBudget>>
  /\ UNCHANGED recvVars
  /\ UNCHANGED histVars
  /\ UNCHANGED <<connRef, launchedQueue>>

\* fileReader.onload of pump p on the last slice, with a conn.send(buffer)
\* that succeeds and a conn.send({ type: 'end' }) that throws: onProgress(100)
\* and resolve() are skipped and the catch arms the retry timer,
\* App.tsx:1148-1200
appPumpEndThrows(p) ==
  /\ pumps[p].reads > 0
  /\ sendFailBudget > 0
  /\ LET pm == pumps[p]
         size == launchedQueue[pm.file + 1]
         len == Min(CHUNK_SIZE, size - pm.offset)
         offset == pm.offset + len
     IN /\ offset >= size
        /\ sendFailBudget' = sendFailBudget - 1
        /\ bufferedAmount' = bufferedAmount + len
        /\ s2r' = Append(s2r, ChunkMsg(pm.file, pm.offset, len))
        /\ IF senderElapsed
           THEN /\ senderProgress' = OverallPercent(pm.file, Percent(offset, size))
                /\ senderElapsed' = FALSE
           ELSE UNCHANGED <<senderProgress, senderElapsed>>
        /\ pumps' = [pumps EXCEPT ![p].offset = offset,
                                  ![p].reads = @ - 1,
                                  ![p].retries = @ + 1,
                                  ![p].sent = @ + 1]
  /\ UNCHANGED <<filesQueue, currentFileIndex, allSent, listeners, timers, startBudget>>
  /\ UNCHANGED <<r2s, lossBudget>>
  /\ UNCHANGED recvVars
  /\ UNCHANGED histVars
  /\ UNCHANGED <<connRef, launchedQueue>>

\* the retry timer set in the catch fires: readNextChunk, which returns at
\* once when offset >= file.size, App.tsx:1196, 1209-1215
appRetryRead(p) ==
  /\ pumps[p].retries > 0
  /\ pumps' = [pumps EXCEPT ![p].retries = @ - 1,
                            ![p].reads = IF pumps[p].offset >= launchedQueue[pumps[p].file + 1]
                                         THEN @ ELSE @ + 1]
  /\ UNCHANGED <<filesQueue, currentFileIndex, senderProgress, allSent, listeners,
                 timers, bufferedAmount, startBudget, senderElapsed>>
  /\ UNCHANGED chanVars
  /\ UNCHANGED recvVars
  /\ UNCHANGED histVars
  /\ UNCHANGED <<connRef, launchedQueue>>

\* the 500 ms timer set after startPumping resolved fires, App.tsx:1074-1081
appNextFile ==
  /\ timers # <<>>
  /\ timers' = Tail(timers)
  /\ UNCHANGED launchedQueue
  /\ appProcessFileQueue(Head(timers))
  /\ UNCHANGED <<filesQueue, senderProgress, pumps, bufferedAmount, startBudget,
                 senderElapsed>>
  /\ UNCHANGED <<r2s, lossBudget, sendFailBudget>>
  /\ UNCHANGED recvVars
  /\ UNCHANGED <<ackedFiles, lastSaved>>
  /\ UNCHANGED connRef

\* the Cancel button (shown while 0 < overallProgress < 100, App.tsx:1683-1690):
\* cancelTransfer, App.tsx:1327-1333, with resetTransfer, App.tsx:1308-1324,
\* on the sending page
cancelTransfer ==
  /\ senderProgress > 0
  /\ senderProgress < 100
  /\ s2r' = Append(s2r, CancelMsg)
  /\ filesQueue' = <<>>
  /\ currentFileIndex' = 0
  /\ senderProgress' = 0
  /\ UNCHANGED <<allSent, listeners, timers, pumps, bufferedAmount, startBudget,
                 senderElapsed>>
  /\ UNCHANGED <<r2s, lossBudget, sendFailBudget>>
  /\ UNCHANGED recvVars
  /\ UNCHANGED histVars
  /\ UNCHANGED <<connRef, launchedQueue>>

\* updateProgress(), App.tsx:833-882 (200 ms throttle)
appUpdateProgress(meta, bytes) ==
  IF meta = NoMeta \/ ~receiverElapsed
  THEN UNCHANGED <<receiverProgress, lastBytesRef, receiverElapsed>>
  ELSE /\ receiverProgress' = Percent(bytes, meta.size)
       /\ lastBytesRef' = bytes
       /\ receiverElapsed' = FALSE

\* conn.on('data') with a binary chunk, App.tsx:689-708; a write() that the
\* stream rejects takes the catch
appRecvChunk(data) ==
  /\ IF writableStreamRef # 0
     THEN IF Rejects(sinks, writableStreamRef)
          THEN /\ chunksRef' = Append(chunksRef, data)
               /\ appUpdateProgress(receivedFileMetaRef, bytesReceivedRef)
               /\ UNCHANGED <<bytesReceivedRef, sinks>>
          ELSE /\ sinks' = Write(sinks, writableStreamRef, <<data>>, "appChunk", data.file)
               /\ UNCHANGED <<chunksRef, bytesReceivedRef, receiverProgress,
                              lastBytesRef, receiverElapsed>>
     ELSE /\ chunksRef' = Append(chunksRef, data)
          /\ bytesReceivedRef' = bytesReceivedRef + data.len
          /\ appUpdateProgress(receivedFileMetaRef, bytesReceivedRef')
          /\ UNCHANGED sinks
  /\ UNCHANGED <<receivedFileMetaRef, writableStreamRef, isMotorReady,
                 isTransferComplete, isFileSaved>>

\* conn.on('data') with {type: 'meta'}, App.tsx:709-731
appRecvMeta(data) ==
  /\ receivedFileMetaRef' = [file |-> data.file, size |-> data.size]
  /\ chunksRef' = <<>>
  /\ bytesReceivedRef' = 0
  /\ lastBytesRef' = 0
  /\ receiverElapsed' = FALSE
  /\ isTransferComplete' = FALSE
  /\ isMotorReady' = FALSE
  /\ isFileSaved' = FALSE
  /\ receiverProgress' = 0
  /\ sinks' = IF writableStreamRef # 0 /\ ~Rejects(sinks, writableStreamRef)
              THEN Close(sinks, writableStreamRef, "appMeta", data.file)
              ELSE sinks
  /\ UNCHANGED writableStreamRef

\* conn.on('data') with {type: 'end'}, App.tsx:732-755
appRecvEnd(data) ==
  /\ IF writableStreamRef # 0
     THEN /\ sinks' = IF Rejects(sinks, writableStreamRef) THEN sinks
                      ELSE Close(sinks, writableStreamRef, "appEnd", data.file)
          /\ UNCHANGED <<receiverProgress, isTransferComplete>>
     ELSE /\ receiverProgress' = 100
          /\ isTransferComplete' = TRUE
          /\ UNCHANGED sinks
  /\ UNCHANGED <<receivedFileMetaRef, chunksRef, bytesReceivedRef, lastBytesRef,
                 receiverElapsed, writableStreamRef, isMotorReady, isFileSaved>>

\* resetTransfer, App.tsx:1308-1324, on the receiving page
resetTransfer ==
  /\ receiverProgress' = 0
  /\ isTransferComplete' = FALSE
  /\ isMotorReady' = FALSE
  /\ isFileSaved' = FALSE
  /\ receivedFileMetaRef' = NoMeta
  /\ chunksRef' = <<>>
  /\ bytesReceivedRef' = 0
  /\ UNCHANGED <<lastBytesRef, receiverElapsed, writableStreamRef, sinks>>

\* the next message of the sender reaches the receiver's 'data' handler,
\* App.tsx:686-765
appReceiverOnData ==
  /\ s2r # <<>>
  /\ s2r' = Tail(s2r)
  /\ LET data == Head(s2r) IN
       CASE data.type = "chunk" -> appRecvChunk(data)
         [] data.type = "meta" -> appRecvMeta(data)
         [] data.type = "end" -> appRecvEnd(data)
         [] data.type = "transfer_cancelled" -> resetTransfer
  /\ UNCHANGED <<writeBufferRef, bufferSizeRef, pickerOpen, streamBudget, writeFailBudget>>
  /\ UNCHANGED senderVars
  /\ UNCHANGED <<r2s, lossBudget, sendFailBudget>>
  /\ UNCHANGED histVars
  /\ UNCHANGED <<diskBufferRef, connectionStatus>>

\* a write() or close() of stream s completes and the handler awaiting it
\* resumes, App.tsx:696-697, 707, 728-729, 735-741
appSinkComplete(s) ==
  /\ sinks[s].ops # <<>>
  /\ sinks' = Completed(sinks, s)
  /\ LET op == Head(sinks[s].ops) IN
       CASE op.cont = "appChunk" ->
              /\ bytesReceivedRef' = bytesReceivedRef + SumLen(op.data)
              /\ appUpdateProgress(receivedFileMetaRef, bytesReceivedRef')
              /\ UNCHANGED <<writableStreamRef, isFileSaved, isTransferComplete>>
         [] op.cont = "appMeta" ->
              /\ writableStreamRef' = 0
              /\ UNCHANGED <<bytesReceivedRef, receiverProgress, lastBytesRef,
                             receiverElapsed, isFileSaved, isTransferComplete>>
         [] op.cont = "appEnd" ->
              /\ writableStreamRef' = 0
              /\ isFileSaved' = TRUE
              /\ receiverProgress' = 100
              /\ isTransferComplete' = TRUE
              /\ UNCHANGED <<bytesReceivedRef, lastBytesRef, receiverElapsed>>
  /\ UNCHANGED <<receivedFileMetaRef, chunksRef, writeBufferRef, bufferSizeRef,
                 isMotorReady, pickerOpen, streamBudget, writeFailBudget>>
  /\ UNCHANGED senderVars
  /\ UNCHANGED chanVars
  /\ UNCHANGED histVars
  /\ UNCHANGED <<diskBufferRef, connectionStatus>>

\* the confirm button (App.tsx:1774-1777) runs prepareMotor, App.tsx:781-830,
\* up to the await of showSaveFilePicker, or to its end on a browser without it
appPrepareMotor ==
  /\ receivedFileMetaRef # NoMeta
  /\ ~isMotorReady
  /\ ~isTransferComplete
  /\ ~pickerOpen
  /\ \/ /\ pickerOpen' = TRUE
        /\ UNCHANGED <<isMotorReady, r2s>>
     \/ /\ isMotorReady' = TRUE
        /\ r2s' = Append(r2s, ReadyMsg)
        /\ UNCHANGED pickerOpen
  /\ UNCHANGED <<receivedFileMetaRef, chunksRef, bytesReceivedRef, lastBytesRef,
                 writeBufferRef, bufferSizeRef, writableStreamRef, isTransferComplete,
                 isFileSaved, receiverProgress, sinks, streamBudget, writeFailBudget,
                 receiverElapsed>>
  /\ UNCHANGED senderVars
  /\ UNCHANGED <<s2r, lossBudget, sendFailBudget>>
  /\ UNCHANGED histVars
  /\ UNCHANGED <<diskBufferRef, connectionStatus>>

\* showSaveFilePicker and createWritable settle, App.tsx:791-821: with a
\* stream, with an error other than AbortError, or with the AbortError of a
\* user who dismissed the picker
appPickerSettles ==
  /\ pickerOpen
  /\ pickerOpen' = FALSE
  /\ \/ /\ streamBudget > 0
        /\ streamBudget' = streamBudget - 1
        /\ sinks' = Append(sinks, NewStream)
        /\ writableStreamRef' = Len(sinks) + 1
        /\ isMotorReady' = TRUE
        /\ r2s' = Append(r2s, ReadyMsg)
        /\ lastBytesRef' = 0
        /\ receiverElapsed' = FALSE
     \/ /\ isMotorReady' = TRUE
        /\ r2s' = Append(r2s, ReadyMsg)
        /\ UNCHANGED <<streamBudget, sinks, writableStreamRef, lastBytesRef, receiverElapsed>>
     \/ UNCHANGED <<isMotorReady, r2s, streamBudget, sinks, writableStreamRef,
                    lastBytesRef, receiverElapsed>>
  /\ UNCHANGED <<receivedFileMetaRef, chunksRef, bytesReceivedRef, writeBufferRef,
                 bufferSizeRef, isTransferComplete, isFileSaved, receiverProgress,
                 writeFailBudget>>
  /\ UNCHANGED senderVars
  /\ UNCHANGED <<s2r, lossBudget, sendFailBudget>>
  /\ UNCHANGED histVars
  /\ UNCHANGED <<diskBufferRef, connectionStatus>>

\* ------------------------------------------- the variant with hybrid buffering
\* The App component of src/App.tsx:1-513: one file (fileToSend, held here as
\* the only entry of filesQueue) over a reliable channel; the receiver pushes
\* every chunk to chunksRef, counts the bytes awaiting a flush in
\* diskBufferRef and writes the whole list once the count reaches its flush
\* threshold (20 MB over 64 KB chunks, scaled like DISK_FLUSH_THRESHOLD); the
\* sender reads on while bufferedAmount is at most 1 MB (SEND_BUFFER_LIMIT).

\* readNextChunk, App.tsx:314-323 (1: the slice is read; 0: the 5 ms timer
\* is armed)
hybridNextReads(buffered) == IF buffered > SEND_BUFFER_LIMIT THEN 0 ELSE 1

\* sendFile, App.tsx:246-263
sendFile ==
  /\ startBudget > 0
  /\ connRef = 1
  /\ Len(filesQueue) > 0
  /\ startBudget' = startBudget - 1
  /\ launchedQueue' = filesQueue
  /\ s2r' = Append(s2r, MetaMsg(0))
  /\ senderProgress' = 1
  /\ listeners' = Append(listeners, 0)
  /\ metaSent' = metaSent \cup {0}
  /\ openFile' = 0
  /\ UNCHANGED <<filesQueue, currentFileIndex, allSent, timers, pumps, bufferedAmount,
                 senderElapsed>>
  /\ UNCHANGED <<r2s, lossBudget, sendFailBudget>>
  /\ UNCHANGED recvVars
  /\ UNCHANGED <<ackedFiles, lastSaved>>
  /\ UNCHANGED connRef

\* a message of the receiver reaches the sender: every listener registered by
\* sendFile runs startPumping up to its first readNextChunk, App.tsx:258-262,
\* 266-278, 314-325
hybridSenderOnData ==
  /\ ChannelOpen
  /\ r2s # <<>>
  /\ r2s' = Tail(r2s)
  /\ Len(pumps) + Len(listeners) <= MaxPumps
  /\ pumps' = pumps \o [i \in 1..Len(listeners) |->
                          [NewPump(listeners[i]) EXCEPT
                             !.reads = hybridNextReads(bufferedAmount),
                             !.polls = 1 - hybridNextReads(bufferedAmount)]]
  /\ senderElapsed' = IF listeners = <<>> THEN senderElapsed ELSE FALSE
  /\ UNCHANGED <<filesQueue, currentFileIndex, senderProgress, allSent, listeners, timers,
                 bufferedAmount, startBudget>>
  /\ UNCHANGED <<s2r, lossBudget, sendFailBudget>>
  /\ UNCHANGED recvVars
  /\ UNCHANGED histVars
  /\ UNCHANGED <<connRef, launchedQueue>>

\* fileReader.onload of pump p, App.tsx:280-312
hybridPumpOnload(p) ==
  /\ pumps[p].reads > 0
  /\ LET pm == pumps[p]
         size == FileSizeOf(pm.file)
         len == SliceLen(pm)
         offset == pm.offset + len
         buffered == bufferedAmount + len
         chunk == ChunkMsg(pm.file, pm.offset, len)
     IN /\ bufferedAmount' = buffered
        /\ IF offset < size
           THEN /\ s2r' = Append(s2r, chunk)
                /\ pumpProgress(offset, size)
                /\ pumps' = [pumps EXCEPT ![p].offset = offset,
                                          ![p].reads = @ - 1 + hybridNextReads(buffered),
                                          ![p].polls = @ + 1 - hybridNextReads(buffered),
                                          ![p].sent = @ + 1]
                /\ UNCHANGED openFile
           ELSE /\ s2r' = Append(Append(s2r, chunk), EndMsg(pm.file))
                /\ senderProgress' = 100
                /\ senderElapsed' = FALSE
                /\ pumps' = RemoveAt(pumps, p)
                /\ openFile' = -1
  /\ UNCHANGED <<filesQueue, currentFileIndex, allSent, listeners, timers, startBudget>>
  /\ UNCHANGED <<r2s, lossBudget, sendFailBudget>>
  /\ UNCHANGED recvVars
  /\ UNCHANGED <<metaSent, ackedFiles, lastSaved>>
  /\ UNCHANGED <<connRef, launchedQueue>>

\* the 5 ms timer of readNextChunk fires and finds bufferedAmount low enough,
\* App.tsx:314-323 (a firing that finds it still high re-arms the timer)
hybridReadNextChunk(p) ==
  /\ pumps[p].polls > 0
  /\ bufferedAmount <= SEND_BUFFER_LIMIT
  /\ pumps' = [pumps EXCEPT ![p].polls = @ - 1, ![p].reads = @ + 1]
  /\ UNCHANGED <<filesQueue, currentFileIndex, senderProgress, allSent, listeners,
                 timers, bufferedAmount, startBudget, senderElapsed>>
  /\ UNCHANGED chanVars
  /\ UNCHANGED recvVars
  /\ UNCHANGED histVars
  /\ UNCHANGED <<connRef, launchedQueue>>

\* updateProgress(), App.tsx:207-228 (300 ms throttle)
hybridUpdateProgress(bytes) ==
  IF receivedFileMetaRef = NoMeta \/ ~receiverElapsed
  THEN UNCHANGED <<receiverProgress, lastBytesRef, receiverElapsed>>
  ELSE /\ receiverProgress' = Percent(bytes, receivedFileMetaRef.size)
       /\ lastBytesRef' = bytes
       /\ receiverElapsed' = FALSE

\* conn.on('data') with a binary chunk, App.tsx:87-108; flushToDisk
\* (App.tsx:161-178) up to its await, its catch taken when write() rejects
hybridRecvChunk(data) ==
  /\ chunksRef' = Append(chunksRef, data)
  /\ bytesReceivedRef' = bytesReceivedRef + data.len
  /\ diskBufferRef' = diskBufferRef + data.len
  /\ IF /\ writableStreamRef # 0
        /\ diskBufferRef + data.len >= DISK_FLUSH_THRESHOLD
        /\ ~Rejects(sinks, writableStreamRef)
     THEN /\ sinks' = Write(sinks, writableStreamRef, Append(chunksRef, data),
                            "hybridChunk", data.file)
          /\ UNCHANGED <<receiverProgress, lastBytesRef, receiverElapsed>>
     ELSE /\ hybridUpdateProgress(bytesReceivedRef + data.len)
          /\ UNCHANGED sinks
  /\ UNCHANGED <<receivedFileMetaRef, writableStreamRef, isMotorReady,
                 isTransferComplete, isFileSaved, lastSaved>>

\* conn.on('data') with {type: 'meta'}, App.tsx:109-130
hybridRecvMeta(data) ==
  /\ receivedFileMetaRef' = [file |-> data.file, size |-> data.size]
  /\ chunksRef' = <<>>
  /\ bytesReceivedRef' = 0
  /\ lastBytesRef' = 0
  /\ diskBufferRef' = 0
  /\ receiverElapsed' = FALSE
  /\ isTransferComplete' = FALSE
  /\ isMotorReady' = FALSE
  /\ isFileSaved' = FALSE
  /\ receiverProgress' = 0
  /\ IF writableStreamRef = 0
     THEN UNCHANGED <<sinks, writableStreamRef>>
     ELSE IF Rejects(sinks, writableStreamRef)
          THEN writableStreamRef' = 0 /\ UNCHANGED sinks
          ELSE /\ sinks' = Close(sinks, writableStreamRef, "hybridMeta", data.file)
               /\ UNCHANGED writableStreamRef
  /\ UNCHANGED lastSaved

\* the 'end' branch from "if (writableStreamRef.current)", App.tsx:137-147
hybridEndClose(sk) ==
  IF writableStreamRef # 0 /\ ~Rejects(sk, writableStreamRef)
  THEN /\ sinks' = Close(sk, writableStreamRef, "hybridEndC", receivedFileMetaRef.file)
       /\ UNCHANGED <<receiverProgress, isTransferComplete>>
  ELSE /\ sinks' = sk
       /\ receiverProgress' = 100
       /\ isTransferComplete' = TRUE

\* conn.on('data') with {type: 'end'}, App.tsx:131-148
hybridRecvEnd(data) ==
  /\ IF writableStreamRef # 0 /\ chunksRef # <<>> /\ ~Rejects(sinks, writableStreamRef)
     THEN /\ sinks' = Write(sinks, writableStreamRef, chunksRef, "hybridEndW", data.file)
          /\ UNCHANGED <<receiverProgress, isTransferComplete>>
     ELSE hybridEndClose(sinks)
  /\ UNCHANGED <<receivedFileMetaRef, chunksRef, bytesReceivedRef, lastBytesRef,
                 diskBufferRef, writableStreamRef, isMotorReady, isFileSaved,
                 receiverElapsed, lastSaved>>

\* the next message of the sender reaches the receiver's 'data' handler,
\* App.tsx:84-149
hybridReceiverOnData ==
  /\ ChannelOpen
  /\ s2r # <<>>
  /\ s2r' = Tail(s2r)
  /\ LET data == Head(s2r) IN
       CASE data.type = "chunk" -> hybridRecvChunk(data)
         [] data.type = "meta" -> hybridRecvMeta(data)
         [] data.type = "end" -> hybridRecvEnd(data)
  /\ UNCHANGED <<writeBufferRef, bufferSizeRef, pickerOpen, streamBudget, writeFailBudget>>
  /\ UNCHANGED senderVars
  /\ UNCHANGED <<r2s, lossBudget, sendFailBudget>>
  /\ UNCHANGED <<metaSent, ackedFiles, openFile>>
  /\ UNCHANGED connectionStatus

\* a write() or close() of stream s completes and the handler awaiting it
\* resumes: flushToDisk clears the list and the count (App.tsx:171-173)
hybridSinkComplete(s) ==
  /\ sinks[s].ops # <<>>
  /\ LET op == Head(sinks[s].ops)
         sk == Completed(sinks, s)
     IN CASE op.cont = "hybridChunk" ->     \* App.tsx:171-173, 107
               /\ sinks' = sk
               /\ chunksRef' = <<>>
               /\ diskBufferRef' = 0
               /\ hybridUpdateProgress(bytesReceivedRef)
               /\ UNCHANGED <<writableStreamRef, isFileSaved, isTransferComplete, lastSaved>>
          [] op.cont = "hybridMeta" ->      \* App.tsx:128
               /\ sinks' = sk
               /\ writableStreamRef' = 0
               /\ UNCHANGED <<chunksRef, diskBufferRef, receiverProgress, lastBytesRef,
                              receiverElapsed, isFileSaved, isTransferComplete, lastSaved>>
          [] op.cont = "hybridEndW" ->      \* App.tsx:171-173, 137-147
               /\ chunksRef' = <<>>
               /\ diskBufferRef' = 0
               /\ hybridEndClose(sk)
               /\ UNCHANGED <<writableStreamRef, lastBytesRef, receiverElapsed,
                              isFileSaved, lastSaved>>
          [] op.cont = "hybridEndC" ->      \* App.tsx:140-147
               /\ sinks' = sk
               /\ writableStreamRef' = 0
               /\ isFileSaved' = TRUE
               /\ lastSaved' = s
               /\ receiverProgress' = 100
               /\ isTransferComplete' = TRUE
               /\ UNCHANGED <<chunksRef, diskBufferRef, lastBytesRef, receiverElapsed>>
          [] op.cont = "hybridClose" ->     \* App.tsx:154, nothing awaits it
               /\ sinks' = sk
               /\ UNCHANGED <<writableStreamRef, chunksRef, diskBufferRef, receiverProgress,
                              lastBytesRef, receiverElapsed, isFileSaved,
                              isTransferComplete, lastSaved>>
  /\ UNCHANGED <<receivedFileMetaRef, bytesReceivedRef, writeBufferRef, bufferSizeRef,
                 isMotorReady, pickerOpen, streamBudget, writeFailBudget>>
  /\ UNCHANGED senderVars
  /\ UNCHANGED chanVars
  /\ UNCHANGED <<metaSent, ackedFiles, openFile>>
  /\ UNCHANGED connectionStatus

\* conn.on('close') of the receiver, App.tsx:151-157: close() is called on the
\* stream without an await, its rejection is caught, and the ref is nulled
hybridOnClose ==
  /\ ChannelOpen
  /\ connectionStatus' = "Connection Closed"
  /\ IF writableStreamRef # 0
     THEN /\ sinks' = IF Rejects(sinks, writableStreamRef) THEN sinks
                      ELSE Close(sinks, writableStreamRef, "hybridClose",
                                 receivedFileMetaRef.file)
          /\ writableStreamRef' = 0
     ELSE UNCHANGED <<sinks, writableStreamRef>>
  /\ UNCHANGED <<receivedFileMetaRef, chunksRef, bytesReceivedRef, lastBytesRef,
                 writeBufferRef, bufferSizeRef, diskBufferRef, isMotorReady,
                 isTransferComplete, isFileSaved, receiverProgress, pickerOpen,
                 streamBudget, writeFailBudget, receiverElapsed>>
  /\ UNCHANGED senderVars
  /\ UNCHANGED chanVars
  /\ UNCHANGED histVars

\* the "Enable High-Speed Save" button (App.tsx:454-457) runs prepareMotor,
\* App.tsx:180-205, up to the await of showSaveFilePicker, or to its end on a
\* browser without the picker
hybridPrepareMotor ==
  /\ receivedFileMetaRef # NoMeta
  /\ ~isMotorReady
  /\ ~isTransferComplete
  /\ ~pickerOpen
  /\ \/ /\ pickerOpen' = TRUE
        /\ UNCHANGED <<isMotorReady, r2s>>
     \/ /\ isMotorReady' = TRUE
        /\ r2s' = Append(r2s, ReadyMsg)
        /\ UNCHANGED pickerOpen
  /\ UNCHANGED <<receivedFileMetaRef, chunksRef, bytesReceivedRef, lastBytesRef,
                 writeBufferRef, bufferSizeRef, diskBufferRef, writableStreamRef,
                 isTransferComplete, isFileSaved, receiverProgress, sinks, streamBudget,
                 writeFailBudget, receiverElapsed>>
  /\ UNCHANGED senderVars
  /\ UNCHANGED <<s2r, lossBudget, sendFailBudget>>
  /\ UNCHANGED histVars
  /\ UNCHANGED connectionStatus

\* showSaveFilePicker and createWritable settle, App.tsx:187-199: a stream
\* and Ready, or the catch ('Save cancelled') that sends nothing
hybridPickerSettles ==
  /\ pickerOpen
  /\ pickerOpen' = FALSE
  /\ \/ /\ streamBudget > 0
        /\ streamBudget' = streamBudget - 1
        /\ sinks' = Append(sinks, NewStream)
        /\ writableStreamRef' = Len(sinks) + 1
        /\ isMotorReady' = TRUE
        /\ r2s' = Append(r2s, ReadyMsg)
     \/ UNCHANGED <<streamBudget, sinks, writableStreamRef, isMotorReady, r2s>>
  /\ UNCHANGED <<receivedFileMetaRef, chunksRef, bytesReceivedRef, lastBytesRef,
                 writeBufferRef, bufferSizeRef, diskBufferRef, isTransferComplete,
                 isFileSaved, receiverProgress, receiverElapsed, writeFailBudget>>
  /\ UNCHANGED senderVars
  /\ UNCHANGED <<s2r, lossBudget, sendFailBudget>>
  /\ UNCHANGED histVars
  /\ UNCHANGED connectionStatus

\* ------------------------------------------------------------ specification
InitRefs ==
  /\ launchedQueue = <<>>
  /\ currentFileIndex = 0
  /\ senderProgress = 0
  /\ allSent = FALSE
  /\ listeners = <<>>
  /\ timers = <<>>
  /\ pumps = <<>>
  /\ bufferedAmount = 0
  /\ senderElapsed = FALSE
  /\ s2r = <<>>
  /\ r2s = <<>>
  /\ receivedFileMetaRef = NoMeta
  /\ chunksRef = <<>>
  /\ bytesReceivedRef = 0
  /\ lastBytesRef = 0
  /\ writeBufferRef = <<>>
  /\ bufferSizeRef = 0
  /\ diskBufferRef = 0
  /\ writableStreamRef = 0
  /\ isMotorReady = FALSE
  /\ isTransferComplete = FALSE
  /\ isFileSaved = FALSE
  /\ receiverProgress = 0
  /\ pickerOpen = FALSE
  /\ sinks = <<>>
  /\ receiverElapsed = FALSE
  /\ connectionStatus = "Connected"
  /\ metaSent = {}
  /\ ackedFiles = {}
  /\ openFile = -1
  /\ lastSaved = 0

\* the state in which the receiver's connection has arrived, part_004:679-683
InitCommon == InitRefs /\ connRef = 1

\* the queue chosen by handleFileSelect: a first file of `first` units
\* followed by n - 1 files of one unit
Queue(n, first) == [i \in 1..n |-> IF i = 1 THEN first ELSE 1]

\* One SEND ALL FILES click; every other step of the program may happen: the
\* picker may give a stream, a write to it may fail, the channel may lose a
\* message, a send may throw.
Init ==
  /\ InitCommon
  /\ filesQueue = Queue(QueueLen, MaxFileSize)
  /\ startBudget = 1
  /\ streamBudget = MaxStreams
  /\ writeFailBudget = MaxWriteFail
  /\ lossBudget = MaxLoss
  /\ sendFailBudget = MaxSendFail

Next ==
  \/ sendAllFiles
  \/ advanceTimer
  \/ senderOnData
  \/ \E p \in 1..Len(pumps) : pumpOnload(p)
  \/ \E p \in 1..Len(pumps) : pumpSendThrows(p)
  \/ \E p \in 1..Len(pumps) : pumpEndThrows(p)
  \/ \E p \in 1..Len(pumps) : waitForDrain(p)
  \/ \E p \in 1..Len(pumps) : retryRead(p)
  \/ channelDrain
  \/ receiverOnData
  \/ \E s \in 1..Len(sinks) : sinkComplete(s)
  \/ \E s \in 1..Len(sinks) : sinkFails(s)
  \/ prepareMotor
  \/ pickerSettles
  \/ loseToReceiver
  \/ loseToSender
  \/ senderTimePasses
  \/ receiverTimePasses

Spec == Init /\ [][Next]_vars

\* What the event loop of either page guarantees: a timer that is set fires, a
\* message that arrived is handled, a read, a drain poll, a retry and a sink
\* operation that were started end.  Clicks, losses and failures are not
\* guaranteed.
Fairness ==
  /\ WF_vars(advanceTimer)
  /\ WF_vars(senderOnData)
  /\ WF_vars(receiverOnData)
  /\ WF_vars(\E p \in 1..Len(pumps) : pumpOnload(p) \/ pumpSendThrows(p) \/ pumpEndThrows(p))
  /\ WF_vars(\E p \in 1..Len(pumps) : waitForDrain(p))
  /\ WF_vars(\E p \in 1..Len(pumps) : retryRead(p))
  /\ WF_vars(channelDrain)
  /\ WF_vars(\E s \in 1..Len(sinks) : sinkComplete(s) \/ sinkFails(s))

\* the same program under that scheduling
SpecFair == Init /\ [][Next]_vars /\ Fairness

\* One start over a channel that may reject a chunk send any number of
\* times, under the event loop's scheduling.
InitReject ==
  /\ InitCommon
  /\ filesQueue = Queue(QueueLen, MaxFileSize)
  /\ startBudget = 1
  /\ streamBudget = MaxStreams
  /\ writeFailBudget = 0
  /\ lossBudget = 0
  /\ sendFailBudget = 0

NextReject ==
  \/ sendAllFiles
  \/ advanceTimer
  \/ senderOnData
  \/ \E p \in 1..Len(pumps) : pumpOnload(p)
  \/ \E p \in 1..Len(pumps) : pumpSendRejected(p)
  \/ \E p \in 1..Len(pumps) : waitForDrain(p)
  \/ \E p \in 1..Len(pumps) : retryRead(p)
  \/ channelDrain
  \/ receiverOnData
  \/ \E s \in 1..Len(sinks) : sinkComplete(s)
  \/ prepareMotor
  \/ pickerSettles
  \/ senderTimePasses
  \/ receiverTimePasses

FairnessReject ==
  /\ WF_vars(advanceTimer)
  /\ WF_vars(senderOnData)
  /\ WF_vars(receiverOnData)
  /\ WF_vars(\E p \in 1..Len(pumps) : pumpOnload(p) \/ pumpSendRejected(p))
  /\ WF_vars(\E p \in 1..Len(pumps) : waitForDrain(p))
  /\ WF_vars(\E p \in 1..Len(pumps) : retryRead(p))
  /\ WF_vars(channelDrain)
  /\ WF_vars(\E s \in 1..Len(sinks) : sinkComplete(s))

SpecReject == InitReject /\ [][NextReject]_vars /\ FairnessReject

\* The hybrid-buffering variant: one file of MaxFileSize units, sent once.
InitHybrid ==
  /\ InitCommon
  /\ filesQueue = Queue(1, MaxFileSize)
  /\ startBudget = 1
  /\ streamBudget = MaxStreams
  /\ writeFailBudget = 0
  /\ lossBudget = 0
  /\ sendFailBudget = 0

NextHybrid ==
  \/ sendFile
  \/ hybridSenderOnData
  \/ \E p \in 1..Len(pumps) : hybridPumpOnload(p)
  \/ \E p \in 1..Len(pumps) : hybridReadNextChunk(p)
  \/ channelDrain
  \/ hybridReceiverOnData
  \/ \E s \in 1..Len(sinks) : hybridSinkComplete(s)
  \/ hybridPrepareMotor
  \/ hybridPickerSettles
  \/ hybridOnClose
  \/ senderTimePasses
  \/ receiverTimePasses

SpecHybrid == InitHybrid /\ [][NextHybrid]_vars

\* The hybrid-buffering variant with the Send button pressed up to MaxStarts
\* times on the same connection, for one file of StartFileSize units.
InitResend ==
  /\ InitCommon
  /\ filesQueue = Queue(1, StartFileSize)
  /\ startBudget = MaxStarts
  /\ streamBudget = MaxStreams
  /\ writeFailBudget = 0
  /\ lossBudget = 0
  /\ sendFailBudget = 0

NextResend ==
  \/ sendFile
  \/ hybridSenderOnData
  \/ \E p \in 1..Len(pumps) : hybridPumpOnload(p)
  \/ \E p \in 1..Len(pumps) : hybridReadNextChunk(p)
  \/ channelDrain
  \/ hybridReceiverOnData
  \/ \E s \in 1..Len(sinks) : hybridSinkComplete(s)
  \/ hybridPrepareMotor
  \/ hybridPickerSettles

SpecResend == InitResend /\ [][NextResend]_vars

\* One start towards a receiver without the File System Access API: every
\* file is kept in chunksRef until the Save File button is pressed.
InitSave ==
  /\ InitCommon
  /\ filesQueue = Queue(QueueLen, MaxFileSize)
  /\ startBudget = 1
  /\ streamBudget = 0
  /\ writeFailBudget = 0
  /\ lossBudget = 0
  /\ sendFailBudget = 0

NextSave ==
  \/ sendAllFiles
  \/ advanceTimer
  \/ senderOnData
  \/ \E p \in 1..Len(pumps) : pumpOnload(p)
  \/ \E p \in 1..Len(pumps) : waitForDrain(p)
  \/ channelDrain
  \/ receiverOnData
  \/ prepareMotor
  \/ pickerSettles
  \/ handleSaveFile

SpecSave == InitSave /\ [][NextSave]_vars

\* One start with a receiver that confirms every Meta, a channel that loses
\* and rejects nothing and a Disk Sink that does not fail, under the event
\* loop's scheduling.
InitLive ==
  /\ InitCommon
  /\ filesQueue = Queue(QueueLen, MaxFileSize)
  /\ startBudget = 1
  /\ streamBudget = MaxStreams
  /\ writeFailBudget = 0
  /\ lossBudget = 0
  /\ sendFailBudget = 0

NextLive ==
  \/ sendAllFiles
  \/ advanceTimer
  \/ senderOnData
  \/ \E p \in 1..Len(pumps) : pumpOnload(p)
  \/ \E p \in 1..Len(pumps) : waitForDrain(p)
  \/ channelDrain
  \/ receiverOnData
  \/ \E s \in 1..Len(sinks) : sinkComplete(s)
  \/ prepareMotor
  \/ pickerSettles
  \/ senderTimePasses
  \/ receiverTimePasses

\* the receiving user presses the Confirm button whenever it is shown, and
\* the save picker they opened settles
FairnessLive ==
  /\ WF_vars(advanceTimer)
  /\ WF_vars(senderOnData)
  /\ WF_vars(receiverOnData)
  /\ WF_vars(\E p \in 1..Len(pumps) : pumpOnload(p))
  /\ WF_vars(\E p \in 1..Len(pumps) : waitForDrain(p))
  /\ WF_vars(channelDrain)
  /\ WF_vars(\E s \in 1..Len(sinks) : sinkComplete(s))
  /\ WF_vars(prepareMotor)
  /\ WF_vars(pickerSettles)

SpecLive == InitLive /\ [][NextLive]_vars /\ FairnessLive

\* The sending page from its first render: no connection yet, a queue of
\* one file or none, and MaxStarts clicks on SEND ALL FILES.
InitStart ==
  /\ InitRefs
  /\ connRef = 0
  /\ filesQueue \in {<<>>, Queue(1, StartFileSize)}
  /\ startBudget = MaxStarts
  /\ streamBudget = 0
  /\ writeFailBudget = 0
  /\ lossBudget = 0
  /\ sendFailBudget = 0

NextStart ==
  \/ onConnection
  \/ sendAllFiles
  \/ advanceTimer
  \/ senderOnData
  \/ \E p \in 1..Len(pumps) : pumpOnload(p)
  \/ receiverOnData
  \/ prepareMotor

SpecStart == InitStart /\ [][NextStart]_vars

\* The variant with Cancel (src/App.tsx:515-1984): one LAUNCH TRANSFER click
\* on a queue of two files, a receiver whose picker may give a stream, and a
\* sending user who may press Cancel; nothing is lost and no send throws.
InitCancel ==
  /\ InitCommon
  /\ filesQueue = Queue(CancelFiles, MaxFileSize)
  /\ startBudget = 1
  /\ streamBudget = MaxStreams
  /\ writeFailBudget = 0
  /\ lossBudget = 0
  /\ sendFailBudget = MaxSendFail

NextCancel ==
  \/ appSendAllFiles
  \/ onReady
  \/ waitForReadyTimeout
  \/ \E p \in 1..Len(pumps) : appPumpOnload(p)
  \/ \E p \in 1..Len(pumps) : appPumpSendThrows(p)
  \/ \E p \in 1..Len(pumps) : appPumpEndThrows(p)
  \/ \E p \in 1..Len(pumps) : appRetryRead(p)
  \/ \E p \in 1..Len(pumps) : waitForDrain(p)
  \/ channelDrain
  \/ appNextFile
  \/ cancelTransfer
  \/ appReceiverOnData
  \/ \E s \in 1..Len(sinks) : appSinkComplete(s)
  \/ appPrepareMotor
  \/ appPickerSettles
  \/ senderTimePasses
  \/ receiverTimePasses

SpecCancel == InitCancel /\ [][NextCancel]_vars

\* The variant with Cancel over a queue whose second file is empty, with a
\* receiver that confirms every Meta, under the event loop's scheduling.
ZeroQueue == [i \in 1..QueueLen |-> IF i = 2 THEN 0 ELSE 1]

InitZero ==
  /\ InitCommon
  /\ filesQueue = ZeroQueue
  /\ startBudget = 1
  /\ streamBudget = MaxStreams
  /\ writeFailBudget = 0
  /\ lossBudget = 0
  /\ sendFailBudget = 0

NextZero ==
  \/ appSendAllFiles
  \/ onReady
  \/ waitForReadyTimeout
  \/ \E p \in 1..Len(pumps) : appPumpOnload(p)
  \/ channelDrain
  \/ appNextFile
  \/ appReceiverOnData
  \/ \E s \in 1..Len(sinks) : appSinkComplete(s)
  \/ appPrepareMotor
  \/ appPickerSettles

FairnessZero ==
  /\ WF_vars(onReady)
  /\ WF_vars(waitForReadyTimeout)
  /\ WF_vars(\E p \in 1..Len(pumps) : appPumpOnload(p))
  /\ WF_vars(channelDrain)
  /\ WF_vars(appNextFile)
  /\ WF_vars(appReceiverOnData)
  /\ WF_vars(\E s \in 1..Len(sinks) : appSinkComplete(s))
  /\ WF_vars(appPrepareMotor)
  /\ WF_vars(appPickerSettles)

SpecZero == InitZero /\ [][NextZero]_vars /\ FairnessZero

\* One start while the user edits the queue: files are dropped in, removed
\* and cleared at any time before, during and after the run.
InitEdit ==
  /\ InitCommon
  /\ filesQueue = Queue(QueueLen, StartFileSize)
  /\ startBudget = 1
  /\ streamBudget = 0
  /\ writeFailBudget = 0
  /\ lossBudget = 0
  /\ sendFailBudget = 0

NextEdit ==
  \/ sendAllFiles
  \/ advanceTimer
  \/ senderOnData
  \/ \E p \in 1..Len(pumps) : pumpOnload(p)
  \/ receiverOnData
  \/ prepareMotor
  \/ pickerSettles
  \/ handleDrop
  \/ clearFilesQueue
  \/ \E index \in 0..(Len(filesQueue) - 1) : removeFileFromQueue(index)

SpecEdit == InitEdit /\ [][NextEdit]_vars

\* One start over a connection that closes at any moment.
InitClose ==
  /\ InitCommon
  /\ filesQueue = Queue(CancelFiles, MaxFileSize)
  /\ startBudget = 1
  /\ streamBudget = MaxStreams
  /\ writeFailBudget = 0
  /\ lossBudget = 0
  /\ sendFailBudget = 0

NextClose ==
  \/ sendAllFiles
  \/ advanceTimer
  \/ senderOnData
  \/ \E p \in 1..Len(pumps) : pumpOnload(p)
  \/ \E p \in 1..Len(pumps) : waitForDrain(p)
  \/ channelDrain
  \/ receiverOnData
  \/ \E s \in 1..Len(sinks) : sinkComplete(s)
  \/ prepareMotor
  \/ pickerSettles
  \/ onClose

SpecClose == InitClose /\ [][NextClose]_vars

\* SEND ALL FILES is clicked again (part_004:1349-1355 leaves the button
\* enabled); every file is a single chunk, so that no chunk loop ever waits
\* for the channel's buffer; the receiver gets no stream from the picker
\* (fallback mode) and the channel loses nothing.
InitRestart ==
  /\ InitCommon
  /\ filesQueue = Queue(QueueLen, CHUNK_SIZE)
  /\ startBudget = MaxStarts
  /\ streamBudget = 0
  /\ writeFailBudget = 0
  /\ lossBudget = 0
  /\ sendFailBudget = 0

NextRestart ==
  \/ sendAllFiles
  \/ advanceTimer
  \/ senderOnData
  \/ \E p \in 1..Len(pumps) : pumpOnload(p)
  \/ receiverOnData
  \/ prepareMotor
  \/ pickerSettles

SpecRestart == InitRestart /\ [][NextRestart]_vars

\* the same with a receiver whose picker gives a stream (motor mode) and a
\* queue of two files
InitMotor ==
  /\ InitCommon
  /\ filesQueue = Queue(QueueLen - 1, CHUNK_SIZE)
  /\ startBudget = MaxStarts
  /\ streamBudget = MaxStreams
  /\ writeFailBudget = 0
  /\ lossBudget = 0
  /\ sendFailBudget = 0

NextMotor ==
  \/ NextRestart
  \/ \E s \in 1..Len(sinks) : sinkComplete(s)

SpecMotor == InitMotor /\ [][NextMotor]_vars

\* SEND ALL FILES clicked again on a queue of one file of several chunks, with
\* the channel's buffer draining at any pace
InitFlow ==
  /\ InitCommon
  /\ filesQueue = Queue(1, MaxFileSize)
  /\ startBudget = MaxStarts
  /\ streamBudget = 0
  /\ writeFailBudget = 0
  /\ lossBudget = 0
  /\ sendFailBudget = 0

NextFlow ==
  \/ NextRestart
  \/ \E p \in 1..Len(pumps) : waitForDrain(p)
  \/ channelDrain

SpecFlow == InitFlow /\ [][NextFlow]_vars

\* one file of BigChunks chunks sent once to a receiver that keeps up with
\* the sender: a chunk is read only when fewer than MaxInFlight messages are
\* undelivered
InitProgress ==
  /\ InitCommon
  /\ filesQueue = Queue(1, BigChunks * CHUNK_SIZE)
  /\ startBudget = 1
  /\ streamBudget = 0
  /\ writeFailBudget = 0
  /\ lossBudget = 0
  /\ sendFailBudget = 0

NextProgress ==
  \/ sendAllFiles
  \/ advanceTimer
  \/ senderOnData
  \/ \E p \in 1..Len(pumps) : Len(s2r) < MaxInFlight /\ pumpOnload(p)
  \/ \E p \in 1..Len(pumps) : waitForDrain(p)
  \/ channelDrain
  \/ receiverOnData
  \/ prepareMotor
  \/ pickerSettles
  \/ senderTimePasses

SpecProgress == InitProgress /\ [][NextProgress]_vars

\* ------------------------------------------------------------------ claims

\* the messages the step puts on the channel S -> R (a step that delivers or
\* loses a message shortens s2r and sends nothing)
SentNow ==
  IF Len(s2r') > Len(s2r) THEN SubSeq(s2r', Len(s2r) + 1, Len(s2r')) ELSE <<>>

\* the step hands the oldest message S -> R to the receiver's 'data' handler
DeliveredNow == s2r # <<>> /\ s2r' = Tail(s2r) /\ lossBudget' = lossBudget

\* the step puts a TransferCompleteAck on the channel R -> S
AckSentNow ==
  /\ Len(r2s') > Len(r2s)
  /\ r2s'[Len(r2s')].type = "transfer_complete_ack"

\* C1 Queue ordering: the Meta of file i+1 is on the channel only after the
\* sender has received the TransferCompleteAck of file i, for every file i.
QueueOrdering == \A i \in metaSent : i > 0 => (i - 1) \in ackedFiles

\* C2 Byte conservation: whenever the receiver reports the session complete,
\* bytesReceivedRef equals the announced size, and the bytes written to the
\* closed stream (motor mode) or held in chunksRef (fallback mode) are, in
\* order, the bytes of the sender's file.
ByteConservation ==
  isTransferComplete =>
    /\ bytesReceivedRef = receivedFileMetaRef.size
    /\ Bytes(IF isFileSaved THEN sinks[lastSaved].written ELSE chunksRef)
         = FileBytes(receivedFileMetaRef.file, receivedFileMetaRef.size)

\* C3 Flush correctness: in motor mode, once End has been processed (the
\* stream is closed and the file reported saved), the blocks written to the
\* stream add up to bytesReceivedRef: no received chunk is omitted or written
\* twice.
FlushCorrectness ==
  (isTransferComplete /\ isFileSaved) =>
    SumLen(sinks[lastSaved].written) = bytesReceivedRef

\* C4 Single-session invariant: a Meta handed to the receiver resets the byte
\* counter, the sample counter, the WriteBuffer and the chunk list, and every
\* chunk the receiver counts, buffers or writes afterwards belongs to the file
\* that Meta announced.
SingleSession ==
  [][DeliveredNow =>
       /\ Head(s2r).type = "meta" =>
            /\ bytesReceivedRef' = 0 /\ lastBytesRef' = 0
            /\ writeBufferRef' = <<>> /\ bufferSizeRef' = 0
            /\ chunksRef' = <<>>
       /\ Head(s2r).type = "chunk" =>
            Head(s2r).file = receivedFileMetaRef.file]_vars

\* C5 Ack after durable flush: when the receiver sends TransferCompleteAck, no
\* byte of the file is left in a buffer that the next Meta discards (chunksRef,
\* writeBufferRef), and in motor mode the stream is closed with no write
\* pending.
AckAfterFlush ==
  [][AckSentNow =>
       /\ SumLen(chunksRef') = 0
       /\ SumLen(writeBufferRef') = 0
       /\ isFileSaved' =>
            (sinks'[lastSaved'].closed /\ sinks'[lastSaved'].ops = <<>>)]_vars

\* C6 One file in flight: while a file's Meta has been sent and its
\* TransferCompleteAck has not been received, every Meta and every chunk put
\* on the channel is of that file.
OneFileInFlight ==
  [][\A k \in 1..Len(SentNow) :
       SentNow[k].type \in {"meta", "chunk"} =>
         \A f \in metaSent \ ackedFiles : f = SentNow[k].file]_vars

\* C7 One Meta, then the file's chunks, then one End: a Meta is sent only for
\* a file that had none, and not between another Meta and its End; a chunk
\* and an End are sent only for the file whose Meta was sent last and that has
\* had no End yet.
OneMetaOneEnd ==
  [][\A k \in 1..Len(SentNow) :
       IF SentNow[k].type = "meta"
       THEN SentNow[k].file \notin metaSent /\ openFile = -1
       ELSE SentNow[k].file = openFile]_vars

\* C8 Backpressure bound: bufferedAmount never exceeds MAX_BUFFERED_AMOUNT by
\* more than one chunk, however the channel drains.
BackpressureBound == bufferedAmount <= MAX_BUFFERED_AMOUNT + CHUNK_SIZE

\* C9 Progress 100 only at End: the receiver shows 100 only once End has been
\* processed, the sender only once End has been sent.
HundredOnlyAtEnd ==
  /\ receiverProgress = 100 => isTransferComplete
  /\ senderProgress = 100 => openFile = -1

\* C10 Monotone progress: within a session the published progress never
\* decreases; on the sender a smaller value is published only with the Meta of
\* a new session, on the receiver only by the handler of a new Meta.
MonotoneProgress ==
  [][/\ senderProgress' < senderProgress =>
          \E k \in 1..Len(SentNow) : SentNow[k].type = "meta"
     /\ receiverProgress' < receiverProgress =>
          (DeliveredNow /\ Head(s2r).type = "meta")]_vars

\* ceil(a / b)
CeilDiv(a, b) == (a + b - 1) \div b

\* C11 Chunk count: a chunk loop over a file of S > 0 units sends its k-th
\* chunk (k = 0, 1, ...) with the bytes [k*C, min((k+1)*C, S)), never an empty
\* one, nothing but chunks, and its End only after chunk number ceil(S/C) - 1,
\* after which it sends no more: ceil(S/C) chunks, then one End.
ChunkCount ==
  [][\A k \in 1..Len(SentNow) :
       SentNow[k].type \in {"chunk", "end"} =>
         \E p \in 1..Len(pumps) :
           LET S == FileSizeOf(pumps[p].file)
               n == pumps[p].sent
               c == SentNow[1]
           IN /\ c = ChunkMsg(pumps[p].file, n * CHUNK_SIZE,
                              Min(CHUNK_SIZE, S - n * CHUNK_SIZE))
              /\ c.len > 0
              /\ \/ /\ SentNow = <<c, EndMsg(pumps[p].file)>>
                    /\ n + 1 = CeilDiv(S, CHUNK_SIZE)
                    /\ pumps' = RemoveAt(pumps, p)
                 \/ /\ SentNow = <<c>>
                    /\ pumps' = [pumps EXCEPT ![p].offset = Min((n + 1) * CHUNK_SIZE, S),
                                              ![p].reads = pumps'[p].reads,
                                              ![p].polls = pumps'[p].polls,
                                              ![p].retries = pumps'[p].retries,
                                              ![p].sent = n + 1]]_vars

\* the stream the receiver holds has had a write fail
SinkFailed == writableStreamRef # 0 /\ sinks[writableStreamRef].errored

\* C12 Disk Sink write failure: once a write to the held sink has failed, every
\* chunk received goes to the chunk list and is counted, no write or close is
\* issued on the failed sink, and when the session is reported complete after
\* a failure the chunk list holds the bytes of the whole file.
WriteFailureFallsBack ==
  [][/\ (SinkFailed /\ DeliveredNow /\ Head(s2r).type = "chunk") =>
          /\ chunksRef' = Append(chunksRef, Head(s2r))
          /\ bytesReceivedRef' = bytesReceivedRef + Head(s2r).len
     /\ SinkFailed => sinks'[writableStreamRef].ops = <<>>
     /\ (isTransferComplete' /\ \E s \in 1..Len(sinks') : sinks'[s].errored) =>
          Bytes(chunksRef') =
            FileBytes(receivedFileMetaRef'.file, receivedFileMetaRef'.size)]_vars

\* the step puts a ReadyToReceive on the channel R -> S
ReadySentNow == r2s' = Append(r2s, ReadyMsg)

\* the step is the end of a prepareMotor call: the picker settles, or the
\* receiver becomes ready without one
ConfirmEndsNow == (pickerOpen /\ ~pickerOpen') \/ (~isMotorReady /\ isMotorReady')

\* C13 Confirm always sends Ready: every prepareMotor call made after a Meta
\* ends by marking the receiver ready and sending ReadyToReceive; if it
\* acquired a stream the receiver holds that stream (motor mode), and if the
\* picker is missing, declined or fails it acquires none and leaves
\* writableStreamRef as it was (fallback mode).
ConfirmSendsReady ==
  [][ConfirmEndsNow =>
       /\ receivedFileMetaRef # NoMeta
       /\ isMotorReady'
       /\ ReadySentNow
       /\ IF Len(sinks') > Len(sinks)
          THEN writableStreamRef' = Len(sinks') /\ sinks'[Len(sinks')] = NewStream
          ELSE writableStreamRef' = writableStreamRef /\ sinks' = sinks]_vars

\* the sender has announced a file and started no chunk loop for it yet
AwaitingReady == listeners # <<>> /\ pumps = <<>> /\ openFile # -1 /\ senderProgress = 1

\* C14 Handshake timeout: a sender that awaits ReadyToReceive eventually
\* leaves that state, whether ReadyToReceive arrives or not.
HandshakeTimeout == AwaitingReady ~> ~AwaitingReady

\* a write to stream s that was issued has not completed yet
WritePending(s) == \E i \in 1..Len(sinks[s].ops) : sinks[s].ops[i].kind = "write"

\* C17 No overlapping writes: the receiver issues a write or a close on a
\* stream only when no earlier write to that stream is still pending.
NoOverlappingWrites ==
  [][\A s \in 1..Len(sinks) :
       Len(sinks'[s].ops) > Len(sinks[s].ops) => ~WritePending(s)]_vars

\* a Meta has been received and its confirm has not completed
AwaitingConfirm == receivedFileMetaRef # NoMeta /\ ~isMotorReady

\* C18 No chunk before confirmation: a chunk delivered between a Meta and the
\* end of its confirm is neither counted nor buffered nor written; the sender
\* starts a chunk loop only on a ReadyToReceive and only for a file whose Meta
\* it has sent, and every chunk it sends comes from such a loop.
NoChunkBeforeConfirm ==
  [][/\ (AwaitingConfirm /\ DeliveredNow /\ Head(s2r).type = "chunk") =>
          /\ bytesReceivedRef' = bytesReceivedRef
          /\ chunksRef' = chunksRef
          /\ writeBufferRef' = writeBufferRef
          /\ sinks' = sinks
     /\ Len(pumps') > Len(pumps) =>
          /\ r2s # <<>> /\ Head(r2s) = ReadyMsg /\ r2s' = Tail(r2s)
          /\ \A p \in (Len(pumps) + 1)..Len(pumps') : pumps'[p].file \in metaSent
     /\ \A i \in 1..Len(SentNow) :
          SentNow[i].type = "chunk" =>
            \E p \in 1..Len(pumps) : pumps[p].file = SentNow[i].file]_vars

\* C19 Ready only in awaiting-ready: a ReadyToReceive starts a chunk loop only
\* when the sender awaits it for the current file, and then over that file;
\* received while the file is pumped or awaits its ack, it starts none.
ReadyOnlyWhenAwaited ==
  [][Len(pumps') > Len(pumps) =>
       /\ AwaitingReady
       /\ \A p \in (Len(pumps) + 1)..Len(pumps') : pumps'[p].file = currentFileIndex]_vars

\* the reads of chunk loop pm that are outstanding or scheduled by a timer
PendingReads(pm) == pm.reads + pm.polls + pm.retries

\* C20 One read at a time: every chunk loop has at most one read of its Byte
\* Source outstanding, the reads that an armed drain poll or retry timer will
\* issue included.
OneOutstandingRead == \A p \in 1..Len(pumps) : PendingReads(pumps[p]) <= 1

\* C20 witness: a loop that has sent a chunk holds an armed retry timer and
\* no outstanding read, while the channel's buffer is above the drain threshold
OneOutstandingReadWitness ==
  \E p \in 1..Len(pumps) :
    /\ pumps[p].sent > 0 /\ pumps[p].retries = 1 /\ pumps[p].reads = 0
    /\ bufferedAmount >= DRAIN_THRESHOLD

\* the sending user has pressed Cancel: resetTransfer has emptied filesQueue
SenderCancelled == filesQueue = <<>>

\* C15 Cancel stops the sender: with the Cancelled sent, the sender has no
\* chunk loop, no ReadyToReceive listener and no next-file timer left, and it
\* puts no further chunk and no End on the channel.
CancelStopsSender ==
  [][/\ SenderCancelled =>
          \A k \in 1..Len(SentNow) : SentNow[k].type \notin {"chunk", "end"}
     /\ SenderCancelled' =>
          (pumps' = <<>> /\ listeners' = <<>> /\ timers' = <<>>)]_vars

\* C16 Cancel resets the receiver: the step that hands a Cancelled to the
\* receiver leaves no Meta, an empty chunk list, zero counters and no held
\* stream, and every stream it had open is closed or closing.
CancelResetsReceiver ==
  [][(DeliveredNow /\ Head(s2r) = CancelMsg) =>
       /\ receivedFileMetaRef' = NoMeta
       /\ chunksRef' = <<>>
       /\ bytesReceivedRef' = 0
       /\ lastBytesRef' = 0
       /\ writableStreamRef' = 0
       /\ \A s \in 1..Len(sinks') : sinks'[s].closing]_vars

\* C21 Watermark hysteresis, for every chunk loop: a loop that has sent a
\* chunk with data remaining pauses (arms the drain poll, reads nothing) when
\* bufferedAmount after the send is at or above MAX_BUFFERED_AMOUNT and reads
\* the next chunk at once when it is below; a paused loop has no read and no
\* retry outstanding, sends nothing, and leaves the pause only by a poll that
\* finds bufferedAmount below DRAIN_THRESHOLD, which reads the next chunk.
WatermarkHysteresis ==
  [][\A p \in 1..Len(pumps) :
       LET pm == pumps[p] IN
         /\ pm.polls > 0 => (pm.reads = 0 /\ pm.retries = 0)
         /\ Len(pumps') >= Len(pumps) =>
              LET pn == pumps'[p] IN
                /\ pm.polls > 0 =>
                     /\ pn.offset = pm.offset /\ pn.sent = pm.sent
                     /\ \A k \in 1..Len(SentNow) :
                          SentNow[k].type = "chunk" =>
                            \E q \in 1..Len(pumps) : q # p /\ pumps'[q].sent = pumps[q].sent + 1
                     /\ pn.polls < pm.polls =>
                          (bufferedAmount < DRAIN_THRESHOLD /\ pn.polls = 0 /\ pn.reads = 1)
                /\ (pn.sent = pm.sent + 1 /\ pn.offset < FileSizeOf(pn.file)) =>
                     IF bufferedAmount' >= MAX_BUFFERED_AMOUNT
                     THEN pn.polls = 1 /\ pn.reads = 0 /\ pn.retries = 0
                     ELSE pn.polls = 0 /\ pn.reads = 1]_vars

\* a paused chunk loop whose channel has drained below the high watermark
\* but not yet below the low one: the loop still waits
WatermarkHysteresisWitness ==
  \E p \in 1..Len(pumps) :
    /\ pumps[p].polls = 1 /\ pumps[p].sent > 0
    /\ bufferedAmount >= DRAIN_THRESHOLD
    /\ bufferedAmount < MAX_BUFFERED_AMOUNT

\* the size of the file a chunk loop reads (the File its closure holds)
LoopFileSize(pm) == launchedQueue[pm.file + 1]

\* C22 A failed send is retried with the same slice: a loop's offset moves
\* only in a step that puts exactly the slice at that offset on the channel,
\* every chunk a loop sends is the slice at its offset (none skipped, none
\* sent twice), and a loop whose last chunk has gone out and whose End has
\* not been sent still has a read, poll or retry outstanding that will send it.
RetrySameSlice ==
  [][\A p \in 1..Len(pumps) :
       LET pm == pumps[p]
           len == Min(CHUNK_SIZE, LoopFileSize(pm) - pm.offset)
       IN /\ (pm.sent > 0 /\ pm.offset >= LoopFileSize(pm)) => PendingReads(pm) > 0
          /\ Len(pumps') >= Len(pumps) =>
               LET pn == pumps'[p] IN
                 /\ pn.offset # pm.offset => pn.sent = pm.sent + 1
                 /\ pn.sent # pm.sent =>
                      /\ pn.sent = pm.sent + 1
                      /\ pn.offset = pm.offset + len
                      /\ SentNow = <<ChunkMsg(pm.file, pm.offset, len)>>]_vars

\* C23 Retries are exhausted: on a channel that keeps rejecting the send of
\* a chunk the sender gives up, so from some point on no chunk loop has a
\* retry armed.
RetriesExhausted == <>[](\A p \in 1..Len(pumps) : pumps[p].retries = 0)

\* stream s has a close() queued that a Meta handler awaits
MetaClosePending(sk, s) == \E k \in 1..Len(sk[s].ops) : sk[s].ops[k].cont = "meta"

\* the step in which a Meta handler ends: the delivery of a Meta that awaits
\* nothing (no stream held, or a close() that rejects at once), or the end of
\* the close() it awaited
MetaHandlerEnds ==
  \/ DeliveredNow /\ Head(s2r).type = "meta" /\ sinks' = sinks
  \/ \E s \in 1..Len(sinks) :
       MetaClosePending(sinks, s) /\ Len(sinks') >= s /\ ~MetaClosePending(sinks', s)

\* C24 After the Meta handler: when a Meta handler ends the receiver holds
\* no Disk Sink handle, bytesReceived and the sample counter are zero, the
\* write buffer and the chunk list are empty, and the receiver is unconfirmed.
MetaResetsReceiver ==
  [][MetaHandlerEnds =>
       /\ writableStreamRef' = 0
       /\ bytesReceivedRef' = 0
       /\ lastBytesRef' = 0
       /\ writeBufferRef' = <<>>
       /\ bufferSizeRef' = 0
       /\ chunksRef' = <<>>
       /\ ~isMotorReady']_vars

RECURSIVE EndAwaits(_)
\* the number of End handlers awaiting a write() or close() of a stream
EndAwaits(sk) ==
  IF sk = <<>> THEN 0
  ELSE Cardinality({k \in 1..Len(Head(sk).ops) : Head(sk).ops[k].cont \in {"endW", "endC"}})
       + EndAwaits(Tail(sk))

\* C25 One ack per End: every End handler that starts or resumes either
\* sends the TransferCompleteAck or awaits a sink operation after which it
\* goes on, no ack is sent by anything else, and in the step that sends the
\* ack the write buffer is empty, no Disk Sink handle is held, every stream
\* is closed and the session is marked complete.
OneAckPerEnd ==
  [][/\ EndAwaits(sinks') + (IF AckSentNow THEN 1 ELSE 0) =
          EndAwaits(sinks) + (IF DeliveredNow /\ Head(s2r).type = "end" THEN 1 ELSE 0)
     /\ AckSentNow =>
          /\ Len(r2s') = Len(r2s) + 1
          /\ writeBufferRef' = <<>>
          /\ bufferSizeRef' = 0
          /\ writableStreamRef' = 0
          /\ \A s \in 1..Len(sinks') : sinks'[s].closed
          /\ isTransferComplete']_vars

\* C26 Bounded receive buffer: while the receiver holds a Disk Sink, the byte
\* count of its in-memory buffer (bufferSizeRef over writeBufferRef, and
\* diskBufferRef over chunksRef in the hybrid variant) is below
\* DISK_FLUSH_THRESHOLD + CHUNK_SIZE, also while a flush's write is pending.
BoundedReceiveBuffer ==
  writableStreamRef # 0 =>
    /\ bufferSizeRef < DISK_FLUSH_THRESHOLD + CHUNK_SIZE
    /\ SumLen(writeBufferRef) < DISK_FLUSH_THRESHOLD + CHUNK_SIZE
    /\ diskBufferRef < DISK_FLUSH_THRESHOLD + CHUNK_SIZE

\* the sender's terminal state: processFileQueue ran past the queue's end,
\* every file was announced and acknowledged, and nothing is left running
\* or in flight
QueueDone ==
  /\ allSent
  /\ metaSent = 0..(Len(filesQueue) - 1)
  /\ ackedFiles = 0..(Len(filesQueue) - 1)
  /\ pumps = <<>> /\ listeners = <<>> /\ timers = <<>>
  /\ s2r = <<>> /\ r2s = <<>>
  /\ openFile = -1

ReadyNeverMissed ==
  [][/\ \A k \in 1..Len(SentNow) :
          SentNow[k].type = "meta" =>
            \E i \in 1..Len(listeners') : listeners'[i] = SentNow[k].file
     /\ (r2s # <<>> /\ r2s' = Tail(r2s) /\ lossBudget' = lossBudget /\ Head(r2s) = ReadyMsg) =>
          /\ listeners # <<>>
          /\ Len(pumps') = Len(pumps) + Len(listeners)
          /\ \A i \in 1..Len(listeners) :
               /\ pumps'[Len(pumps) + i].file = listeners[i]
               /\ pumps'[Len(pumps) + i].offset = 0
               /\ PendingReads(pumps'[Len(pumps) + i]) = 1]_vars

\* the second file of the queue has been confirmed and its chunk loop runs
ReadyNeverMissedWitness ==
  /\ listeners = <<1>>
  /\ \E p \in 1..Len(pumps) : pumps[p].file = 1 /\ pumps[p].sent > 0

\* the step is a click on the start button
StartClicked == startBudget' = startBudget - 1

RECURSIVE PassedToWrite(_)
\* the bytes of the write() operations of a stream that have not completed
PassedToWrite(ops) ==
  IF ops = <<>> THEN 0
  ELSE (IF Head(ops).kind = "write" THEN SumLen(Head(ops).data) ELSE 0)
       + PassedToWrite(Tail(ops))

\* C30 Receiver accounting: bytesReceived is zero after a Meta (or a
\* Cancelled), grows by the chunk's size in the step that receives a chunk
\* and changes in no other step; while a healthy Disk Sink is held it equals
\* the bytes passed to the sink's write plus the bytes in the write buffer,
\* and in a session without a sink that is not complete it equals the bytes
\* in the chunk list.
ReceiverAccounting ==
  [][/\ bytesReceivedRef' =
          IF DeliveredNow /\ Head(s2r).type = "chunk"
          THEN bytesReceivedRef + Head(s2r).len
          ELSE IF DeliveredNow /\ Head(s2r).type \in {"meta", "transfer_cancelled"}
               THEN 0 ELSE bytesReceivedRef
     /\ (writableStreamRef' # 0 /\ ~sinks'[writableStreamRef'].errored
           /\ ~sinks'[writableStreamRef'].closing) =>
          bytesReceivedRef' = SumLen(sinks'[writableStreamRef'].written)
                              + PassedToWrite(sinks'[writableStreamRef'].ops)
                              + SumLen(writeBufferRef')
     /\ (writableStreamRef' = 0 /\ ~isTransferComplete') =>
          bytesReceivedRef' = SumLen(chunksRef')]_vars


\* a ReadyToReceive is handled by the sender in this step
ReadyHandledNow == r2s # <<>> /\ Head(r2s) = ReadyMsg /\ r2s' = Tail(r2s)

\* C31 One ReadyToReceive starts exactly one chunk pump, over the file
\* announced last, however many times the file was offered on the connection.
OneReadyOnePump ==
  [][ReadyHandledNow =>
       /\ Len(pumps') = Len(pumps) + 1
       /\ pumps'[Len(pumps')].file = openFile
       /\ pumps'[Len(pumps')].offset = 0]_vars


\* C32 A file completed in fallback mode and not yet saved keeps its chunk
\* list: no step, the arrival of the next file's Meta included, changes
\* chunksRef while the file is complete, acknowledged and unsaved.
UnsavedFileKept ==
  [][(/\ isTransferComplete /\ ~isFileSaved /\ writableStreamRef = 0
      /\ receivedFileMetaRef # NoMeta
      /\ receivedFileMetaRef.file \in ackedFiles \cup
           {r2s[i].file : i \in {j \in 1..Len(r2s) : r2s[j].type = "transfer_complete_ack"}})
       => chunksRef' = chunksRef]_vars


\* startPumping has run for file f, and f is empty
ZeroLoopStarted(f) ==
  /\ launchedQueue # <<>> /\ launchedQueue[f + 1] = 0
  /\ \E p \in 1..Len(pumps) : pumps[p].file = f

\* C33 An empty file does not stall the queue: once its ReadyToReceive has
\* started the chunk loop, End is sent and the next file is announced.
ZeroByteFileEnds ==
  \A f \in 0..(QueueLen - 2) : ZeroLoopStarted(f) ~> (f + 1 \in metaSent)


\* a Meta is put on the channel in this step
MetaSentNow == Len(s2r') = Len(s2r) + 1 /\ s2r'[Len(s2r')].type = "meta"

\* C34 The run sends the queue of the moment of the start click: the queue the
\* run follows is taken at the click and changed by nothing else, every Meta
\* announces the next file of that queue with its size, once and in order,
\* and the run ends when that queue is exhausted.
RunSendsStartQueue ==
  [][/\ launchedQueue' = IF StartClicked /\ connRef # 0 /\ filesQueue # <<>>
                         THEN filesQueue ELSE launchedQueue
     /\ MetaSentNow =>
          LET m == s2r'[Len(s2r')] IN
            /\ m.file = Cardinality(metaSent)
            /\ metaSent' = metaSent \cup {m.file}
            /\ m.file < Len(launchedQueue')
            /\ m.size = launchedQueue'[m.file + 1]
     /\ allSent' => metaSent' = 0..(Len(launchedQueue') - 1)]_vars

\* the run has sent its whole start queue although the user had emptied the
\* queue before the last file was announced
RunSendsStartQueueWitness ==
  /\ allSent /\ Len(launchedQueue) = QueueLen
  /\ filesQueue = <<>> /\ currentFileIndex = QueueLen - 1


\* the receiver's 'close' handler runs in this step
CloseHandledNow == ChannelOpen /\ ~ChannelOpen'

\* C35 After the channel closes the receiver holds no open Disk Sink: the
\* step that handles 'close' closes the stream it held and releases it, and
\* no stream is held in any later state.
NoSinkAfterClose ==
  [][/\ ~ChannelOpen' => writableStreamRef' = 0
     /\ (CloseHandledNow /\ writableStreamRef # 0) =>
          sinks'[writableStreamRef].closing]_vars


\* the handshake of the announced file has timed out: its Meta was sent, no
\* End followed, and neither a waitForReady nor a chunk loop is left
HandshakeTimedOut == openFile # -1 /\ listeners = <<>> /\ pumps = <<>>

\* C36 A ReadyToReceive handled after the handshake timeout of a file starts
\* no chunk loop, arms no timer towards the next file and sends nothing.
LateReadyIgnored ==
  [][(HandshakeTimedOut /\ ReadyHandledNow) =>
       /\ pumps' = <<>> /\ timers' = timers /\ listeners' = <<>>
       /\ s2r' = s2r /\ metaSent' = metaSent
       /\ currentFileIndex' = currentFileIndex /\ allSent' = allSent]_vars

\* the receiver's Ready has been handled by a sender whose handshake had
\* timed out, and nothing was started
LateReadyIgnoredWitness ==
  /\ HandshakeTimedOut /\ isMotorReady /\ r2s = <<>>
  /\ receivedFileMetaRef # NoMeta /\ receivedFileMetaRef.file = openFile


\* C37 Confirm without a received Meta or without a connection does nothing:
\* from a state with no Meta (or no connection) and no picker open, no step
\* sends ReadyToReceive, opens the picker, acquires a sink or sets the
\* receiver ready.
ConfirmWithoutMeta ==
  [][((receivedFileMetaRef = NoMeta \/ connRef = 0) /\ ~pickerOpen) =>
       /\ ~ReadySentNow
       /\ ~pickerOpen'
       /\ Len(sinks') = Len(sinks)
       /\ writableStreamRef' \in {0, writableStreamRef}
       /\ isMotorReady' => isMotorReady]_vars

\* the connection exists and the first Meta is still on its way: the receiver
\* has no Meta, is not ready and has sent nothing
ConfirmWithoutMetaWitness ==
  /\ receivedFileMetaRef = NoMeta /\ connRef = 1 /\ s2r # <<>>
  /\ ~isMotorReady /\ ~pickerOpen /\ r2s = <<>> /\ writableStreamRef = 0

=============================================================================
